---------------------------- MODULE Spec2Model ----------------------------
(***************************************************************************)
(* Curve-analysis engines of the Bacterial Growth Curves Analyser:         *)
(*   find_baseline_points  (blank-selection-test02.py, LNDS cleanup)       *)
(*   find_baseline_points  (blank-selection-test0.py, greedy cleanup)      *)
(*   detect_log_phase      (log_phase_tester_smoothed.py)                  *)
(* with _linear_regression and the two series builders,                    *)
(* get_time_series_for_well and get_curve_for_sample_history.              *)
(*                                                                         *)
(* Numbers.  OD values, bin_width, tol and MONO_EPS are fixed-point        *)
(* integers in units of 0.0005 OD; readings are multiples of 0.001 OD      *)
(* (even integers), so the median of an even number of readings is an      *)
(* integer again.  Times are integers (minutes).  Fractions among the      *)
(* options (r2_min, frac_k_max, mu_rel_min, mu_rel_max) and the regression *)
(* slope are exact rationals <<num, den>> with den > 0.  Indices are the   *)
(* 0-based indices of the Python lists.  Python None is <<>>, a known      *)
(* value v is <<v>>.                                                       *)
(***************************************************************************)
EXTENDS Integers, Sequences, FiniteSets, TLC

VARIABLES prog, t, y, opt, arg, res02, res0, reslog, ret, app

vars == <<prog, t, y, opt, arg, res02, res0, reslog, ret, app>>

(***************************************************************************)
(* Bounds of the model.                                                    *)
(***************************************************************************)
MaxLen == 4
MaxY == 2
MaxLogLen == 5
MaxExp == 2
MaxWin == 3
MaxRows == 3
MaxPoints == 2
MaxMus == 3
Precision == 5

(***************************************************************************)
(* Module-level configuration of the two baseline scripts.                 *)
(***************************************************************************)
T_PRE == 45
BIN_WIDTH == 2
TOL == 2
MIN_CONSECUTIVE == 3
MONO_EPS == 0
MONO_T_MAX == 400
MONO_EPS_0 == 2

(***************************************************************************)
(* Python list helpers.                                                    *)
(***************************************************************************)
None == <<>>
Some(v) == <<v>>

At(s, i) == s[i + 1]

Last(s) == s[Len(s)]

Abs(a) == IF a < 0 THEN -a ELSE a

ToSet(s) == {s[k] : k \in 1..Len(s)}

Enumerate(s) == [k \in 1..Len(s) |-> k - 1]

RECURSIVE Insert(_, _)
Insert(s, v) ==
  IF s = <<>> THEN <<v>>
  ELSE IF v < Head(s) THEN <<v>> \o s
  ELSE <<Head(s)>> \o Insert(Tail(s), v)

RECURSIVE Sorted(_)
Sorted(s) == IF s = <<>> THEN <<>> ELSE Insert(Sorted(Tail(s)), Head(s))

\* sorted(...) in descending order
RECURSIVE SortedSet_descending(_)
SortedSet_descending(S) ==
  IF S = {} THEN <<>>
  ELSE LET hi == CHOOSE a \in S : \A b \in S : b <= a
       IN  <<hi>> \o SortedSet_descending(S \ {hi})

RECURSIVE SortedSet(_)
SortedSet(S) ==
  IF S = {} THEN <<>>
  ELSE LET lo == CHOOSE a \in S : \A b \in S : a <= b
       IN  <<lo>> \o SortedSet(S \ {lo})

\* statistics.median: the middle value, or the mean of the two middle values
median(vals) ==
  LET s == Sorted(vals)
      n == Len(s)
  IN  IF n % 2 = 1 THEN s[(n + 1) \div 2]
      ELSE (s[n \div 2] + s[n \div 2 + 1]) \div 2

\* int(a / b) of Python for b # 0: the quotient truncated towards zero
TruncDiv(a, b) ==
  LET q == Abs(a) \div Abs(b)
  IN  IF (a < 0) = (b < 0) THEN q ELSE -q

\* max(items, key=len) returning the last item of greatest length
MaxByLen_last(items) ==
  items[CHOOSE k \in 1..Len(items) :
          /\ \A j \in 1..Len(items) : Len(items[j]) <= Len(items[k])
          /\ \A j \in (k + 1)..Len(items) : Len(items[j]) < Len(items[k])]

\* max(items, key=len): the first item of greatest length
MaxByLen(items) ==
  items[CHOOSE k \in 1..Len(items) :
          /\ \A j \in 1..Len(items) : Len(items[j]) <= Len(items[k])
          /\ \A j \in 1..(k - 1) : Len(items[j]) < Len(items[k])]

(***************************************************************************)
(* Results.                                                                *)
(***************************************************************************)
NotCalled == [status |-> "not_called"]

Raised(e) == [status |-> "raised", error |-> e]

BaselineResult(b, level, ex) ==
  [status |-> "returned", baselineIndices |-> b, baselineLevel |-> level,
   excludedIndices |-> ex]

(***************************************************************************)
(* find_baseline_points, the part shared by both scripts.                  *)
(***************************************************************************)
pre_indices(tt, t_pre) ==
  SelectSeq(Enumerate(tt), LAMBDA i : At(tt, i) <= t_pre)

MinOf(s) == CHOOSE a \in ToSet(s) : \A b \in ToSet(s) : a <= b

\* bins_dict as the list of its (bin_index, indices) items in insertion order
RECURSIVE bins_dict(_, _, _, _)
bins_dict(yy, pre, y_min, bin_width) ==
  IF pre = <<>> THEN <<>>
  ELSE LET front == SubSeq(pre, 1, Len(pre) - 1)
           idx == Last(pre)
           bins == bins_dict(yy, front, y_min, bin_width)
           bin_index == TruncDiv(At(yy, idx) - y_min, bin_width)
           at == {k \in 1..Len(bins) : bins[k].key = bin_index}
       IN  IF at = {}
           THEN Append(bins, [key |-> bin_index, idxs |-> <<idx>>])
           ELSE [k \in 1..Len(bins) |->
                   IF k \in at
                   THEN [bins[k] EXCEPT !.idxs = Append(@, idx)]
                   ELSE bins[k]]

\* the last bin of greatest count wins
best_indices_last(bins) ==
  bins[CHOOSE k \in 1..Len(bins) :
         /\ \A j \in 1..Len(bins) : Len(bins[j].idxs) <= Len(bins[k].idxs)
         /\ \A j \in (k + 1)..Len(bins) : Len(bins[j].idxs) < Len(bins[k].idxs)].idxs

best_indices(bins) ==
  MaxByLen([k \in 1..Len(bins) |-> bins[k].idxs])

\* every pre-window index is a candidate, whatever its value
candidate_indices_no_tol(yy, pre, level, tol) == Sorted(pre)

candidate_indices(yy, pre, level, tol) ==
  Sorted(SelectSeq(pre, LAMBDA i : Abs(At(yy, i) - level) <= tol))

\* the runs of adjacent index numbers of a non-empty candidate list
RECURSIVE RunsOf(_)
RunsOf(cand) ==
  IF Len(cand) = 1 THEN << <<cand[1]>> >>
  ELSE LET front == RunsOf(SubSeq(cand, 1, Len(cand) - 1))
           idx == Last(cand)
           current_run == Last(front)
       IN  IF idx = Last(current_run) + 1
           THEN [front EXCEPT ![Len(front)] = Append(current_run, idx)]
           ELSE Append(front, <<idx>>)

\* every candidate is returned even when a run is long enough
baseline_indices_all_candidates(cand, min_consecutive) == cand

baseline_indices(cand, min_consecutive) ==
  LET runs == RunsOf(cand)
      valid_runs == SelectSeq(runs, LAMBDA run : Len(run) >= min_consecutive)
  IN  IF valid_runs = <<>> THEN cand ELSE MaxByLen(valid_runs)

\* a point at exactly tol from the level is excluded as well
excluded_pre_indices_at_tol(yy, pre, base, level, tol) ==
  IF base = <<>> THEN {}
  ELSE LET earliest_baseline_idx == MinOf(base)
       IN  {idx \in ToSet(pre) :
              idx < earliest_baseline_idx /\ Abs(At(yy, idx) - level) >= tol}

excluded_pre_indices(yy, pre, base, level, tol) ==
  IF base = <<>> THEN {}
  ELSE LET earliest_baseline_idx == MinOf(base)
       IN  {idx \in ToSet(pre) :
              idx < earliest_baseline_idx /\ Abs(At(yy, idx) - level) > tol}


(***************************************************************************)
(* blank-selection-test02.py: longest non-decreasing subsequence cleanup.  *)
(* vals, dp_len and prev_idx are functions on the local positions 0..m-1.  *)
(***************************************************************************)
mono_indices(tt, yy, start_idx, excluded) ==
  SelectSeq([k \in 1..(Len(yy) - start_idx) |-> start_idx + k - 1],
            LAMBDA i : At(tt, i) <= MONO_T_MAX /\ i \notin excluded)

\* the relaxation without the comparison of the values
RECURSIVE InnerLoop_no_value_check(_, _, _, _, _)
InnerLoop_no_value_check(vals, eps, dp, j, i) ==
  IF i >= j THEN dp
  ELSE IF dp.dp_len[i] + 1 > dp.dp_len[j]
       THEN InnerLoop_no_value_check(vals, eps,
                      [dp EXCEPT !.dp_len[j] = dp.dp_len[i] + 1,
                                 !.prev_idx[j] = i],
                      j, i + 1)
       ELSE InnerLoop_no_value_check(vals, eps, dp, j, i + 1)

\* for i in range(from, j): relax dp_len[j] and prev_idx[j]
RECURSIVE InnerLoop(_, _, _, _, _)
InnerLoop(vals, eps, dp, j, i) ==
  IF i >= j THEN dp
  ELSE IF vals[i] <= vals[j] + eps /\ dp.dp_len[i] + 1 > dp.dp_len[j]
       THEN InnerLoop(vals, eps,
                      [dp EXCEPT !.dp_len[j] = dp.dp_len[i] + 1,
                                 !.prev_idx[j] = i],
                      j, i + 1)
       ELSE InnerLoop(vals, eps, dp, j, i + 1)

\* the outer loop without the update of best_end
RECURSIVE OuterLoop_keeps_best_end(_, _, _, _)
OuterLoop_keeps_best_end(vals, eps, dp, j) ==
  IF j >= Cardinality(DOMAIN vals) THEN dp
  ELSE OuterLoop_keeps_best_end(vals, eps, InnerLoop(vals, eps, dp, j, 0),
                                j + 1)

\* for j in range(from, m): the inner loop, then the update of best_end
RECURSIVE OuterLoop(_, _, _, _)
OuterLoop(vals, eps, dp, j) ==
  IF j >= Cardinality(DOMAIN vals) THEN dp
  ELSE LET d == InnerLoop(vals, eps, dp, j, 0)
       IN  OuterLoop(vals, eps,
                     IF d.dp_len[j] > d.dp_len[d.best_end]
                     THEN [d EXCEPT !.best_end = j] ELSE d,
                     j + 1)

\* prev_idx = [0] * m in place of [-1] * m
lnds_dp_prev_zero(vals, eps) ==
  LET m == Cardinality(DOMAIN vals)
  IN  OuterLoop(vals, eps,
                [dp_len |-> [k \in 0..(m - 1) |-> 1],
                 prev_idx |-> [k \in 0..(m - 1) |-> 0],
                 best_end |-> 0],
                0)

lnds_dp(vals, eps) ==
  LET m == Cardinality(DOMAIN vals)
  IN  OuterLoop(vals, eps,
                [dp_len |-> [k \in 0..(m - 1) |-> 1],
                 prev_idx |-> [k \in 0..(m - 1) |-> -1],
                 best_end |-> 0],
                0)

\* while k != -1: keep k and step to prev_idx[k]
RECURSIVE keep_local_positions(_, _)
keep_local_positions(prev_idx, k) ==
  IF k = -1 THEN {}
  ELSE {k} \cup keep_local_positions(prev_idx, prev_idx[k])

\* the cleanup that excludes nothing
lnds_excluded_nothing(yy, mono, eps) == {}

\* the indices of mono that the cleanup adds to excluded_indices
lnds_excluded(yy, mono, eps) ==
  IF Len(mono) <= 1 THEN {}
  ELSE LET vals == [k \in 0..(Len(mono) - 1) |-> At(yy, At(mono, k))]
           dp == lnds_dp(vals, eps)
           keep == keep_local_positions(dp.prev_idx, dp.best_end)
           keep_global_indices == {At(mono, pos) : pos \in keep}
       IN  {idx \in ToSet(mono) : idx \notin keep_global_indices}

(***************************************************************************)
(* blank-selection-test0.py: greedy clamp over the whole series.           *)
(* prev is None until the first point that is not excluded.                *)
(***************************************************************************)
\* the clamp that never updates the running maximum
RECURSIVE greedy_excluded_first_as_max(_, _, _, _, _)
greedy_excluded_first_as_max(yy, eps, excluded, prev, idx) ==
  IF idx >= Len(yy) THEN excluded
  ELSE IF idx \in excluded
       THEN greedy_excluded_first_as_max(yy, eps, excluded, prev, idx + 1)
  ELSE IF prev = None
       THEN greedy_excluded_first_as_max(yy, eps, excluded, Some(At(yy, idx)),
                                         idx + 1)
  ELSE IF At(yy, idx) < prev[1] - eps
       THEN greedy_excluded_first_as_max(yy, eps, excluded \cup {idx}, prev,
                                         idx + 1)
  ELSE greedy_excluded_first_as_max(yy, eps, excluded, prev, idx + 1)

RECURSIVE greedy_excluded(_, _, _, _, _)
greedy_excluded(yy, eps, excluded, prev, idx) ==
  IF idx >= Len(yy) THEN excluded
  ELSE IF idx \in excluded THEN greedy_excluded(yy, eps, excluded, prev, idx + 1)
  ELSE IF prev = None
       THEN greedy_excluded(yy, eps, excluded, Some(At(yy, idx)), idx + 1)
  ELSE IF At(yy, idx) < prev[1] - eps
       THEN greedy_excluded(yy, eps, excluded \cup {idx}, prev, idx + 1)
  ELSE greedy_excluded(yy, eps, excluded,
                       Some(IF prev[1] >= At(yy, idx) THEN prev[1]
                            ELSE At(yy, idx)),
                       idx + 1)

(***************************************************************************)
(* find_baseline_points(t, y, t_pre, bin_width, tol, min_consecutive).     *)
(* variant = "lnds" is blank-selection-test02.py, "greedy" is              *)
(* blank-selection-test0.py; the scripts differ only in the cleanup.       *)
(***************************************************************************)
baseline_cleanup(variant, tt, yy, base, level, excluded) ==
  IF variant = "lnds"
  THEN BaselineResult(base, Some(level),
         SortedSet(excluded \cup
                   lnds_excluded(yy, mono_indices(tt, yy, MinOf(base), excluded),
                                 MONO_EPS)))
  ELSE BaselineResult(base, Some(level),
         SortedSet(greedy_excluded(yy, MONO_EPS_0, excluded, None, 0)))

\* the guard with an off-by-one threshold
too_few_pre_off_by_one(pre, min_consecutive) == Len(pre) < min_consecutive - 1

\* if len(pre_indices) < min_consecutive: return [], None, []
too_few_pre(pre, min_consecutive) == Len(pre) < min_consecutive

find_baseline(variant, tt, yy, t_pre, bin_width, tol, min_consecutive) ==
  LET pre == pre_indices(tt, t_pre)
  IN  IF too_few_pre(pre, min_consecutive) THEN BaselineResult(<<>>, None, <<>>)
      ELSE IF pre = <<>> THEN Raised("ValueError: min() arg is an empty sequence")
      ELSE IF bin_width = 0 THEN Raised("ZeroDivisionError: division by zero")
      ELSE
        LET y_min == MinOf([k \in 1..Len(pre) |-> At(yy, pre[k])])
            bins == bins_dict(yy, pre, y_min, bin_width)
            best == best_indices(bins)
            level == median([k \in 1..Len(best) |-> At(yy, best[k])])
            cand == candidate_indices(yy, pre, level, tol)
        IN  IF cand = <<>> THEN BaselineResult(<<>>, Some(level), <<>>)
            ELSE LET base == baseline_indices(cand, min_consecutive)
                     excluded == excluded_pre_indices(yy, pre, base, level, tol)
                 IN  baseline_cleanup(variant, tt, yy, base, level, excluded)

find_baseline_points(tt, yy, t_pre, bin_width, tol, min_consecutive) ==
  find_baseline("lnds", tt, yy, t_pre, bin_width, tol, min_consecutive)

find_baseline_points_0(tt, yy, t_pre, bin_width, tol, min_consecutive) ==
  find_baseline("greedy", tt, yy, t_pre, bin_width, tol, min_consecutive)

(***************************************************************************)
(* Exact rationals <<num, den>>, den > 0, kept in lowest terms.            *)
(***************************************************************************)
RECURSIVE GCD(_, _)
GCD(a, b) == IF b = 0 THEN a ELSE GCD(b, a % b)

Rat(a, b) ==
  LET g == GCD(Abs(a), Abs(b))
      sg == IF b < 0 THEN -1 ELSE 1
  IN  <<sg * (a \div g), sg * (b \div g)>>

RatLeq(p, q) == p[1] * q[2] <= q[1] * p[2]

RatLt(p, q) == p[1] * q[2] < q[1] * p[2]

RatMul(p, q) == Rat(p[1] * q[1], p[2] * q[2])

RatAdd(p, q) == Rat(p[1] * q[2] + q[1] * p[2], p[2] * q[2])

RECURSIVE Sum(_)
Sum(s) == IF s = <<>> THEN 0 ELSE Head(s) + Sum(Tail(s))

RECURSIVE RatSum(_)
RatSum(s) == IF s = <<>> THEN <<0, 1>> ELSE RatAdd(Head(s), RatSum(Tail(s)))

MaxOf(s) == CHOOSE a \in ToSet(s) : \A b \in ToSet(s) : b <= a

(***************************************************************************)
(* math.log on the readings 2, 4, 6, ... (0.001, 0.002, 0.003, ... OD):    *)
(* 100 * ln(val / 2) to the nearest integer.  The regression is invariant  *)
(* under the additive constant ln(0.001); slopes are in 1/100 per minute.  *)
(***************************************************************************)
LnTable ==
  <<0, 69, 110, 139, 161, 179, 195, 208, 220, 230, 240, 248, 256, 264, 271, 277>>

log(val) == LnTable[val \div 2]

(***************************************************************************)
(* _linear_regression(T, U): None, or the slope and R^2 of the fit.        *)
(* With n = len(T), the sums are kept as the integers n * s_tt, n * s_tu   *)
(* and n * ss_tot.  For the fitted line, ss_res = ss_tot - s_tu^2 / s_tt,  *)
(* so that 1 - ss_res / ss_tot = s_tu^2 / (s_tt * ss_tot).                 *)
(***************************************************************************)

\* _linear_regression with r2 = 0.0 for ss_tot == 0
_linear_regression_flat_r2_zero(T, U) ==
  LET n == Len(T)
      sum_t == Sum(T)
      sum_u == Sum(U)
      n_s_tt == n * Sum([k \in 1..n |-> T[k] * T[k]]) - sum_t * sum_t
      n_s_tu == n * Sum([k \in 1..n |-> T[k] * U[k]]) - sum_t * sum_u
      n_ss_tot == n * Sum([k \in 1..n |-> U[k] * U[k]]) - sum_u * sum_u
  IN  IF n < 2 THEN None
      ELSE IF n_s_tt = 0 THEN None
      ELSE Some([slope |-> Rat(n_s_tu, n_s_tt),
                 r2 |-> IF n_ss_tot = 0 THEN <<0, 1>>
                        ELSE Rat(n_s_tu * n_s_tu, n_s_tt * n_ss_tot)])

_linear_regression(T, U) ==
  LET n == Len(T)
      sum_t == Sum(T)
      sum_u == Sum(U)
      n_s_tt == n * Sum([k \in 1..n |-> T[k] * T[k]]) - sum_t * sum_t
      n_s_tu == n * Sum([k \in 1..n |-> T[k] * U[k]]) - sum_t * sum_u
      n_ss_tot == n * Sum([k \in 1..n |-> U[k] * U[k]]) - sum_u * sum_u
  IN  IF n < 2 THEN None
      ELSE IF n_s_tt = 0 THEN None
      ELSE Some([slope |-> Rat(n_s_tu, n_s_tt),
                 r2 |-> IF n_ss_tot = 0 THEN <<1, 1>>
                        ELSE Rat(n_s_tu * n_s_tu, n_s_tt * n_ss_tot)])

(***************************************************************************)
(* detect_log_phase(t, y, window_size, r2_min, od_min, frac_k_max,         *)
(*                  mu_rel_min, mu_rel_max).                               *)
(***************************************************************************)
LogResult(li, mu_max, mu_mean, K_est) ==
  [status |-> "returned", logIndices |-> li, muMax |-> mu_max,
   muMean |-> mu_mean, kEstimate |-> K_est]

\* every index is taken as valid
valid_indices_unfiltered(yy, od_min) == Enumerate(yy)

valid_indices(yy, od_min) ==
  SelectSeq(Enumerate(yy), LAMBDA i : At(yy, i) >= od_min)

\* s[a:b] of Python for a >= 0
PySlice(s, a, b) ==
  LET n == Len(s)
      hi0 == IF b < 0 THEN b + n ELSE b
      hi == IF hi0 < 0 THEN 0 ELSE IF hi0 > n THEN n ELSE hi0
  IN  SubSeq(s, a + 1, hi)

\* the tail taken as all valid indices
tail_indices_all(valid) == valid

tail_indices(valid) ==
  IF Len(valid) >= 5 THEN SubSeq(valid, Len(valid) - 4, Len(valid)) ELSE valid

\* the loop body without the R^2 test
window_at_no_r2(tt, yy, idxs, K_est, r2_min, frac_k_max) ==
  LET T == [k \in 1..Len(idxs) |-> At(tt, idxs[k])]
      Y == [k \in 1..Len(idxs) |-> At(yy, idxs[k])]
  IN  IF RatLeq(frac_k_max, Rat(MaxOf(Y), K_est)) THEN None
      ELSE IF \E k \in 1..Len(Y) : Y[k] <= 0 THEN None
      ELSE LET reg == _linear_regression(T, [k \in 1..Len(Y) |-> log(Y[k])])
           IN  IF reg = None THEN None
               ELSE IF reg[1].slope[1] <= 0 THEN None
               ELSE Some([start_idx |-> idxs[1], end_idx |-> Last(idxs),
                          slope |-> reg[1].slope, r2 |-> reg[1].r2])

\* one iteration of the sliding-window loop: the window to append, if any
window_at(tt, yy, idxs, K_est, r2_min, frac_k_max) ==
  LET T == [k \in 1..Len(idxs) |-> At(tt, idxs[k])]
      Y == [k \in 1..Len(idxs) |-> At(yy, idxs[k])]
  IN  IF RatLeq(frac_k_max, Rat(MaxOf(Y), K_est)) THEN None
      ELSE IF \E k \in 1..Len(Y) : Y[k] <= 0 THEN None
      ELSE LET reg == _linear_regression(T, [k \in 1..Len(Y) |-> log(Y[k])])
           IN  IF reg = None THEN None
               ELSE IF reg[1].slope[1] <= 0 THEN None
               ELSE IF RatLt(reg[1].r2, r2_min) THEN None
               ELSE Some([start_idx |-> idxs[1], end_idx |-> Last(idxs),
                          slope |-> reg[1].slope, r2 |-> reg[1].r2])

\* for k in range(from, len(valid_indices) - window_size + 1);
\* max(Y) of an empty window raises ValueError
RECURSIVE good_windows(_, _, _, _, _, _, _, _, _)
good_windows(tt, yy, valid, window_size, K_est, r2_min, frac_k_max, k, good) ==
  IF k >= Len(valid) - window_size + 1 THEN [raised |-> FALSE, wins |-> good]
  ELSE LET idxs == PySlice(valid, k, k + window_size)
       IN  IF idxs = <<>> THEN [raised |-> TRUE, wins |-> good]
           ELSE good_windows(tt, yy, valid, window_size, K_est, r2_min,
                             frac_k_max, k + 1,
                             good \o window_at(tt, yy, idxs, K_est, r2_min,
                                               frac_k_max))

\* min(win[2] for win in good_windows)
mu_max_of_min(good) ==
  LET k == CHOOSE k \in 1..Len(good) :
             \A j \in 1..Len(good) : RatLeq(good[k].slope, good[j].slope)
  IN  good[k].slope

\* max(win[2] for win in good_windows)
mu_max_of(good) ==
  LET k == CHOOSE k \in 1..Len(good) :
             \A j \in 1..Len(good) : RatLeq(good[j].slope, good[k].slope)
  IN  good[k].slope

\* max(..., key=...) returning the last window of greatest slope
MaxBySlope_last(good) ==
  good[CHOOSE k \in 1..Len(good) :
         /\ \A j \in 1..Len(good) : RatLeq(good[j].slope, good[k].slope)
         /\ \A j \in (k + 1)..Len(good) : RatLt(good[j].slope, good[k].slope)]

\* max(good_windows, key=lambda w: w[2]): the first window of greatest slope
MaxBySlope(good) ==
  good[CHOOSE k \in 1..Len(good) :
         /\ \A j \in 1..Len(good) : RatLeq(good[j].slope, good[k].slope)
         /\ \A j \in 1..(k - 1) : RatLt(good[j].slope, good[k].slope)]

log_windows(good, mu_max, mu_rel_min, mu_rel_max) ==
  LET near == SelectSeq(good, LAMBDA win :
                /\ RatLeq(RatMul(mu_rel_min, mu_max), win.slope)
                /\ RatLeq(win.slope, RatMul(mu_rel_max, mu_max)))
  IN  IF near = <<>> THEN <<MaxBySlope(good)>> ELSE near

is_log(n, wins) ==
  [i \in 0..(n - 1) |->
     \E k \in 1..Len(wins) : wins[k].start_idx <= i /\ i <= wins[k].end_idx]

\* the run loop without the reset of current after a closed run
RECURSIVE log_runs_no_reset(_, _, _, _, _)
log_runs_no_reset(flags, n, i, runs, current) ==
  IF i >= n THEN (IF current # <<>> THEN Append(runs, current) ELSE runs)
  ELSE IF flags[i]
       THEN log_runs_no_reset(flags, n, i + 1, runs, Append(current, i))
  ELSE IF current # <<>>
       THEN log_runs_no_reset(flags, n, i + 1, Append(runs, current), current)
  ELSE log_runs_no_reset(flags, n, i + 1, runs, current)

\* the runs of consecutive True flags among is_log[from:], current being open
RECURSIVE log_runs(_, _, _, _, _)
log_runs(flags, n, i, runs, current) ==
  IF i >= n THEN (IF current # <<>> THEN Append(runs, current) ELSE runs)
  ELSE IF flags[i] THEN log_runs(flags, n, i + 1, runs, Append(current, i))
  ELSE IF current # <<>> THEN log_runs(flags, n, i + 1, Append(runs, current), <<>>)
  ELSE log_runs(flags, n, i + 1, runs, current)

\* the slopes of all selected windows, overlapping the run or not
mus_in_run_all(wins, log_indices) == [k \in 1..Len(wins) |-> wins[k].slope]

mus_in_run(wins, log_indices) ==
  LET over == SelectSeq(wins, LAMBDA win :
                ~(win.end_idx < log_indices[1] \/ win.start_idx > Last(log_indices)))
  IN  [k \in 1..Len(over) |-> over[k].slope]

(***************************************************************************)
(* mu_mean = sum(mus_in_run) / len(mus_in_run) in binary floating point.   *)
(* A float is a non-negative integer count of units in the last place of   *)
(* the binade [2^(Precision-1), 2^Precision); every operation rounds its   *)
(* exact result to Precision significant bits, ties to the even            *)
(* significand.                                                            *)
(***************************************************************************)
\* the binary exponent of the unit in the last place of num / den
RECURSIVE ulp_exponent(_, _, _)
ulp_exponent(num, den, e) ==
  IF num < den * 2^(Precision + e) THEN e ELSE ulp_exponent(num, den, e + 1)

\* num / den rounded to the nearest float, ties to even
fl(num, den) ==
  LET step == 2^ulp_exponent(num, den, 0)
      k == num \div (den * step)
      rem == num - k * den * step
  IN  IF 2 * rem < den * step THEN k * step
      ELSE IF 2 * rem > den * step THEN (k + 1) * step
      ELSE IF k % 2 = 0 THEN k * step ELSE (k + 1) * step

\* sum() adding the items one by one from 0, each addition rounded
RECURSIVE float_sum(_, _)
float_sum(mus, acc) ==
  IF mus = <<>> THEN acc ELSE float_sum(Tail(mus), fl(acc + Head(mus), 1))

\* sum(mus_in_run) / len(mus_in_run); the compensated sum() of newer
\* interpreters rounds the exact total once
mu_mean_of(mus, compensated) ==
  LET total == IF compensated THEN fl(Sum(mus), 1) ELSE float_sum(mus, 0)
  IN  fl(total, Len(mus))

\* the guard with an off-by-one threshold
too_few_valid_off_by_one(valid, window_size) == Len(valid) < window_size

\* if len(valid_indices) < window_size + 1: return [], None, None, None
too_few_valid(valid, window_size) == Len(valid) < window_size + 1

detect_log_phase(tt, yy, window_size, r2_min, od_min, frac_k_max, mu_rel_min, mu_rel_max) ==
  LET n == Len(tt)
      valid == valid_indices(yy, od_min)
      tail == tail_indices(valid)
      tail_vals == [k \in 1..Len(tail) |-> At(yy, tail[k])]
      K_est == IF tail_vals # <<>> THEN Some(median(tail_vals)) ELSE None
  IN  IF n = 0 THEN LogResult(<<>>, None, None, None)
      ELSE IF too_few_valid(valid, window_size) THEN LogResult(<<>>, None, None, None)
      ELSE IF K_est = None \/ K_est[1] <= 0 THEN LogResult(<<>>, None, None, None)
      ELSE
        LET loop == good_windows(tt, yy, valid, window_size, K_est[1], r2_min,
                                 frac_k_max, 0, <<>>)
            good == loop.wins
        IN  IF loop.raised THEN Raised("ValueError: max() arg is an empty sequence")
            ELSE IF good = <<>> THEN LogResult(<<>>, None, None, K_est)
            ELSE
              LET mu_max == mu_max_of(good)
                  wins == log_windows(good, mu_max, mu_rel_min, mu_rel_max)
                  runs == log_runs(is_log(n, wins), n, 0, <<>>, <<>>)
              IN  IF runs = <<>> THEN LogResult(<<>>, Some(mu_max), None, K_est)
                  ELSE
                    LET log_indices == MaxByLen(runs)
                        mus == mus_in_run(wins, log_indices)
                        mu_mean == IF mus # <<>>
                                   THEN RatMul(RatSum(mus), <<1, Len(mus)>>)
                                   ELSE mu_max
                    IN  LogResult(log_indices, Some(mu_max), Some(mu_mean), K_est)

(***************************************************************************)
(* The series builders.  A row of dataset.rows is a record with the fields *)
(* well, time_min and val_od600; a history entry is a record with a label  *)
(* and its points, each point a record with the fields x and y.            *)
(***************************************************************************)
Zip(a, b) == [k \in 1..Len(a) |-> <<a[k], b[k]>>]

RECURSIVE InsertByKey(_, _)
InsertByKey(s, p) ==
  IF s = <<>> THEN <<p>>
  ELSE IF p[1] < Head(s)[1] THEN <<p>> \o s
  ELSE <<Head(s)>> \o InsertByKey(Tail(s), p)

\* sorted(pairs, key=lambda xy: xy[0]): equal keys keep their order
RECURSIVE SortedByKey(_)
SortedByKey(s) ==
  IF s = <<>> THEN <<>>
  ELSE InsertByKey(SortedByKey(SubSeq(s, 1, Len(s) - 1)), s[Len(s)])

BuilderResult(tt, yy) == [status |-> "returned", t |-> tt, y |-> yy]

\* get_time_series_for_well(data, well) of blank-selection-test02.py
get_time_series_for_well(rows, well) ==
  LET mine == SelectSeq(rows, LAMBDA row : row.well = well)
      tt == [k \in 1..Len(mine) |-> mine[k].time_min]
      yy == [k \in 1..Len(mine) |-> mine[k].val_od600]
      combined == SortedByKey(Zip(tt, yy))
  IN  IF tt = <<>> THEN Raised("ValueError: Brak danych dla wella")
      ELSE BuilderResult([k \in 1..Len(combined) |-> combined[k][1]],
                         [k \in 1..Len(combined) |-> combined[k][2]])

\* the history entry that get_curve_for_sample_history selects, or None
selected_history(history, history_label) ==
  IF history_label = None THEN Some(Last(history))
  ELSE LET hits == SelectSeq(history, LAMBDA h : h.label = history_label[1])
       IN  IF hits = <<>> THEN None ELSE Some(Head(hits))

\* get_curve_for_sample_history(sample_entry, history_label)
get_curve_for_sample_history(sample_entry, history_label) ==
  LET history == sample_entry.history
  IN  IF history = <<>> THEN Raised("ValueError: Brak sekcji 'history'")
      ELSE LET sel == selected_history(history, history_label)
           IN  IF sel = None THEN Raised("ValueError: Brak history.label")
               ELSE LET points == sel[1].points
                    IN  IF points = <<>>
                          THEN Raised("ValueError: brak punktow")
                        ELSE BuilderResult(
                               [k \in 1..Len(points) |-> points[k].x],
                               [k \in 1..Len(points) |-> points[k].y])

(***************************************************************************)
(* The inputs of one call.  A run is one call of one script's engine on    *)
(* a series that its builder has sorted by time.                           *)
(***************************************************************************)
NonDecreasing(s) == \A k \in 1..(Len(s) - 1) : s[k] <= s[k + 1]

SeqsUpTo(S, n) == UNION {[1..m -> S] : m \in 0..n}

\* times at, between and after the pre-window and cleanup cut-offs
BaselineTimes == {T_PRE, MONO_T_MAX, MONO_T_MAX + 1}

BaselineValues == {2 * k : k \in 0..MaxY}

\* the defaults with each min_consecutive up to the default, and wider bins
BaselineOptions ==
  [t_pre : {T_PRE}, bin_width : {BIN_WIDTH}, tol : {TOL},
   min_consecutive : {1, 2, MIN_CONSECUTIVE}]
  \cup [t_pre : {T_PRE}, bin_width : {2 * BIN_WIDTH}, tol : {TOL},
        min_consecutive : {2}]

\* options outside their documented ranges
BadBaselineOptions ==
  [t_pre : {T_PRE}, bin_width : {0, -BIN_WIDTH}, tol : {TOL},
   min_consecutive : {2}]
  \cup [t_pre : {T_PRE}, bin_width : {BIN_WIDTH}, tol : {0, -TOL},
        min_consecutive : {2}]
  \cup [t_pre : {T_PRE}, bin_width : {BIN_WIDTH}, tol : {TOL},
        min_consecutive : {0}]

\* a regular time grid, or one whose first timestamp occurs twice
LogTimes(n) ==
  {[k \in 1..n |-> k - 1], [k \in 1..n |-> IF k = 1 THEN 0 ELSE k - 2]}

\* no reading, or 0.001 OD doubled up to MaxExp times
LogValues == {0} \cup {2 * 2^k : k \in 0..MaxExp}

\* window sizes from 1 on with the other options fixed
LogOptions ==
  [window_size : {1, 2, 3}, r2_min : {<<49, 50>>}, od_min : {2},
   frac_k_max : {<<3, 2>>}, mu_rel_min : {<<4, 5>>}, mu_rel_max : {<<21, 20>>}]

\* another od_min, a tighter plateau fraction, a slope band above mu_max
OtherLogOptions ==
  [window_size : {2}, r2_min : {<<49, 50>>}, od_min : {0, 4},
        frac_k_max : {<<3, 2>>}, mu_rel_min : {<<4, 5>>},
        mu_rel_max : {<<21, 20>>}]
  \cup [window_size : {2}, r2_min : {<<49, 50>>}, od_min : {2},
        frac_k_max : {<<2, 5>>}, mu_rel_min : {<<4, 5>>},
        mu_rel_max : {<<21, 20>>}]
  \cup [window_size : {2}, r2_min : {<<49, 50>>}, od_min : {2},
        frac_k_max : {<<3, 2>>}, mu_rel_min : {<<11, 10>>},
        mu_rel_max : {<<6, 5>>}]

\* window sizes below 1
BadLogOptions ==
  [window_size : {-1, 0}, r2_min : {<<49, 50>>}, od_min : {2},
   frac_k_max : {<<3, 2>>}, mu_rel_min : {<<4, 5>>}, mu_rel_max : {<<21, 20>>}]

\* the series of MaxLen points are read with the default bins and runs of
\* at least two points; all options are tried on the series of up to
\* MaxLen - 1 points, bad options on the series of up to MaxLen - 2 points
InitBaseline ==
  /\ prog = "baseline"
  /\ \/ /\ t \in {s \in [1..MaxLen -> BaselineTimes] : NonDecreasing(s)}
        /\ opt \in {o \in BaselineOptions :
                      o.bin_width = BIN_WIDTH /\ o.min_consecutive >= 2}
     \/ /\ t \in {s \in SeqsUpTo(BaselineTimes, MaxLen - 1) : NonDecreasing(s)}
        /\ opt \in BaselineOptions
     \/ /\ t \in {s \in SeqsUpTo(BaselineTimes, MaxLen - 2) : NonDecreasing(s)}
        /\ opt \in BadBaselineOptions
  /\ y \in [1..Len(t) -> BaselineValues]

\* the series of MaxLogLen points lie on the regular grid, have a reading
\* everywhere and are read with windows of two and three points; the
\* series of up to MaxLogLen - 1 points are tried on every grid with each
\* window size and on the regular grid with the other options, bad options
\* on the series of up to MaxLogLen - 2 points
InitLog ==
  /\ prog = "logphase"
  /\ \/ /\ t = [k \in 1..MaxLogLen |-> k - 1]
        /\ opt \in {o \in LogOptions : o.window_size >= 2}
        /\ y \in [1..MaxLogLen -> LogValues \ {0}]
     \/ /\ \E n \in 0..(MaxLogLen - 1) :
             \/ t \in LogTimes(n) /\ opt \in LogOptions
             \/ t = [k \in 1..n |-> k - 1] /\ opt \in OtherLogOptions
        /\ y \in [1..Len(t) -> LogValues]
     \/ /\ \E n \in 0..(MaxLogLen - 2) : t \in LogTimes(n)
        /\ opt \in BadLogOptions
        /\ y \in [1..Len(t) -> LogValues]

\* series longer than the five-point tail: two leading readings, then five
\* readings on up to three levels, each the double of the one below
InitLongSeries ==
  /\ prog = "logphase"
  /\ t = [k \in 1..7 |-> k - 1]
  /\ \E head \in [1..2 -> {0, 2, 8}], rest \in [1..5 -> {2, 4, 8}] : y = head \o rest
  /\ opt \in [window_size : {2}, r2_min : {<<49, 50>>}, od_min : {2},
              frac_k_max : {<<3, 2>>}, mu_rel_min : {<<4, 5>>},
              mu_rel_max : {<<21, 20>>}]
  /\ arg = None

\* the worked series of the baseline script: growth after a flat start,
\* and one downward spike in a rising series
FlatStart ==
  [t |-> <<0, 10, 20, 30, 40, 50, 60, 70>>,
   y |-> <<100, 102, 98, 100, 400, 800, 1600, 3000>>,
   opt |-> [t_pre |-> T_PRE, bin_width |-> BIN_WIDTH, tol |-> 20,
            min_consecutive |-> MIN_CONSECUTIVE]]

DownwardSpike ==
  [t |-> <<0, 10, 20, 30, 40>>,
   y |-> <<100, 800, 1600, 600, 3000>>,
   opt |-> [t_pre |-> T_PRE, bin_width |-> BIN_WIDTH, tol |-> TOL,
            min_consecutive |-> MIN_CONSECUTIVE]]

InitScenario ==
  /\ prog = "baseline"
  /\ \E s \in {FlatStart, DownwardSpike} : t = s.t /\ y = s.y /\ opt = s.opt
  /\ arg = None

\* one regression window: times with repeats, log-values of the readings
RegTimes == 0..1

RegValues == {log(2 * 2^k) : k \in 0..MaxExp}

InitRegression ==
  /\ prog = "regression"
  /\ \E n \in 0..MaxWin : t \in [1..n -> RegTimes] /\ y \in [1..n -> RegValues]
  /\ opt = None
  /\ arg = None

Rows == [well : {"A1", "B2"}, time_min : {0, 10}, val_od600 : {2, 4}]

InitWellBuilder ==
  /\ prog = "well_builder"
  /\ arg \in [data : SeqsUpTo(Rows, MaxRows), well : {"A1"}]
  /\ t = <<>> /\ y = <<>> /\ opt = None

Points == [x : {0, 10}, y : {2, 4}]

Histories ==
  {<<>>}
  \cup {<<[label |-> "raw", points |-> ps]>> : ps \in SeqsUpTo(Points, MaxPoints)}
  \cup {<<[label |-> "raw", points |-> <<>>],
          [label |-> "smoothed", points |-> ps]>> :
          ps \in SeqsUpTo(Points, MaxPoints)}

InitHistoryBuilder ==
  /\ prog = "history_builder"
  /\ arg \in [sample_entry : [history : Histories],
              history_label : {None, Some("raw"), Some("smoothed")}]
  /\ t = <<>> /\ y = <<>> /\ opt = None

\* the eight greatest floats of the binade
FloatSlopes == (2^Precision - 8)..(2^Precision - 1)

\* one sequence of points handed to both cleanups with the same epsilon
InitCleanup ==
  /\ prog = "cleanup"
  /\ y \in SeqsUpTo(BaselineValues, MaxLen)
  /\ t = <<>>
  /\ opt \in [eps : {MONO_EPS, MONO_EPS_0}]
  /\ arg = None

\* the slopes of the windows overlapping a run: floats from the top of one
\* binade, summed by either sum()
InitMean ==
  /\ prog = "mean"
  /\ \E n \in 1..MaxMus : y \in [1..n -> FloatSlopes]
  /\ t = <<>>
  /\ opt \in [compensated : BOOLEAN]
  /\ arg = None

(***************************************************************************)
(* The sessions of BaselineApp and LogPhaseSmoothedApp.  Sample names,     *)
(* wells and history labels are positive integers, 0 is the empty string.  *)
(* A file is None when it does not exist and Some(payload) otherwise.      *)
(* An assignment payload is a record of its optional keys "assignments"    *)
(* and "dataset", an assignment a record of its optional mapping.samples   *)
(* and dataset, and a present dataset is its rows.  A smoothed payload is  *)
(* a JSON object with the optional key "samples", or a JSON list.          *)
(***************************************************************************)
\* data.get(key, default) on an optional key
Get(field, default) == IF field = None THEN default ELSE field[1]

\* the truth value of self.data in BaselineApp: None and {} are false
BaselineDataIsTrue(data) ==
  data # None /\ (data[1].assignments # None \/ data[1].dataset # None)

get_dataset_rows(data) ==
  LET nested == SelectSeq(Get(data.assignments, <<>>),
                          LAMBDA assignment : assignment.dataset # None)
      dataset == IF data.dataset # None THEN data.dataset
                 ELSE IF nested # <<>> THEN nested[1].dataset
                 ELSE None
  IN  IF dataset = None
      THEN Raised("KeyError: Brak danych 'dataset.rows' w pliku assignment")
      ELSE [status |-> "returned", value |-> dataset[1]]

\* the dict sample -> sorted wells as a function on the sample names
list_samples_and_wells_from_mapping(data) ==
  LET assignments == Get(data.assignments, <<>>)
      mapping_samples == IF assignments # <<>> THEN assignments[1].samples
                         ELSE None
  IN  IF mapping_samples # None /\ mapping_samples[1] # <<>>
      THEN LET samples == mapping_samples[1]
               used == {k \in 1..Len(samples) :
                          samples[k].name # 0 /\ samples[k].wells # <<>>}
           IN  [status |-> "returned",
                value |-> [name \in {samples[k].name : k \in used} |->
                             SortedSet(UNION {ToSet(samples[k].wells) :
                               k \in {j \in used : samples[j].name = name}})]]
      ELSE LET rows == get_dataset_rows(data)
           IN  IF rows.status = "raised" THEN rows
               ELSE LET used == {k \in 1..Len(rows.value) :
                                   /\ rows.value[k].sample # 0
                                   /\ rows.value[k].well # 0}
                    IN  [status |-> "returned",
                         value |-> [name \in {rows.value[k].sample : k \in used} |->
                                      SortedSet({rows.value[k].well :
                                        k \in {j \in used :
                                                 rows.value[j].sample = name}})]]

BaselineApp_update_button_state(self) ==
  [self EXCEPT !.analyze_button =
     IF BaselineDataIsTrue(self.data) /\ self.sample_var # 0 /\ self.well_var # 0
     THEN "normal" ELSE "disabled"]

BaselineApp_on_sample_selected(self) ==
  LET wells == IF self.sample_var \in DOMAIN self.sample_to_wells
               THEN self.sample_to_wells[self.sample_var] ELSE <<>>
  IN  BaselineApp_update_button_state(
        [self EXCEPT !.well_values = wells,
                     !.well_var = IF wells # <<>> THEN wells[1] ELSE 0])

\* the session after _load_json, and whether the call raised
BaselineApp_load_json(self, file) ==
  IF file = None THEN [self |-> self, raised |-> TRUE]
  ELSE LET loaded == [self EXCEPT !.data = file]
           listed == list_samples_and_wells_from_mapping(file[1])
       IN  IF listed.status = "raised" THEN [self |-> loaded, raised |-> TRUE]
           ELSE LET sample_names == SortedSet(DOMAIN listed.value)
                IN  [self |-> BaselineApp_on_sample_selected(
                                [loaded EXCEPT
                                   !.sample_to_wells = listed.value,
                                   !.sample_values = sample_names,
                                   !.sample_var = IF sample_names # <<>>
                                                  THEN sample_names[1] ELSE 0]),
                     raised |-> FALSE]

\* the truth value of self.data in LogPhaseSmoothedApp
LogDataIsTrue(data) ==
  data # None /\ (data[1].kind = "list" \/ data[1].samples # None)

\* sorted(set(names)); a list payload has no .get and raises
list_samples(smoothed_payload) ==
  IF smoothed_payload.kind = "list"
  THEN Raised("AttributeError: 'list' object has no attribute 'get'")
  ELSE LET samples == Get(smoothed_payload.samples, <<>>)
       IN  [status |-> "returned",
            value |-> SortedSet({samples[k].sample : k \in 1..Len(samples)}
                                  \ {0})]

get_sample_entry(smoothed_payload, sample_name) ==
  IF smoothed_payload.kind = "list"
  THEN Raised("AttributeError: 'list' object has no attribute 'get'")
  ELSE LET found == SelectSeq(Get(smoothed_payload.samples, <<>>),
                              LAMBDA s : s.sample = sample_name)
       IN  IF found = <<>> THEN Raised("ValueError: Brak sample")
           ELSE [status |-> "returned", value |-> found[1]]

list_history_labels(sample_entry) ==
  SelectSeq(sample_entry.history, LAMBDA label : label # 0)

LogPhaseSmoothedApp_update_button_state(self) ==
  [self EXCEPT !.analyze_button =
     IF LogDataIsTrue(self.data) /\ self.sample_var # 0 /\ self.history_var # 0
     THEN "normal" ELSE "disabled"]

\* the session after _on_sample_selected, and whether the history was
\* taken from self.data
LogPhaseSmoothedApp_on_sample_selected(self) ==
  IF ~LogDataIsTrue(self.data) THEN [self |-> self, taken |-> FALSE]
  ELSE IF self.sample_var = 0
  THEN [self |-> LogPhaseSmoothedApp_update_button_state(
                   [self EXCEPT !.history_values = <<>>, !.history_var = 0]),
        taken |-> TRUE]
  ELSE LET sample_entry == get_sample_entry(self.data[1], self.sample_var)
       IN  IF sample_entry.status = "raised"
           THEN [self |-> self, taken |-> FALSE]
           ELSE LET labels == list_history_labels(sample_entry.value)
                IN  [self |-> LogPhaseSmoothedApp_update_button_state(
                                [self EXCEPT
                                   !.history_values = labels,
                                   !.history_var = IF labels # <<>>
                                                   THEN Last(labels) ELSE 0]),
                     taken |-> TRUE]

\* the session after _load_json, whether the call raised, and whether the
\* history was taken from the new payload
LogPhaseSmoothedApp_load_json(self, file) ==
  IF file = None THEN [self |-> self, raised |-> TRUE, taken |-> FALSE]
  ELSE LET loaded == [self EXCEPT !.data = file]
           listed == list_samples(file[1])
       IN  IF listed.status = "raised"
           THEN [self |-> loaded, raised |-> TRUE, taken |-> FALSE]
           ELSE LET selected == LogPhaseSmoothedApp_on_sample_selected(
                                  [loaded EXCEPT
                                     !.sample_values = listed.value,
                                     !.sample_var = IF listed.value # <<>>
                                                    THEN listed.value[1]
                                                    ELSE 0])
                IN  [self |-> selected.self, raised |-> FALSE,
                     taken |-> selected.taken]

\* assignment files: rows at the root, a mapping, rows inside an
\* assignment, rows without a sample name, {} and {"assignments": []}
AssignmentFiles ==
  {[assignments |-> None,
    dataset |-> Some(<<[sample |-> 1, well |-> 2], [sample |-> 1, well |-> 1],
                       [sample |-> 2, well |-> 3]>>)],
   [assignments |-> Some(<<[samples |-> Some(<<[name |-> 3, wells |-> <<4>>]>>),
                           dataset |-> None]>>),
    dataset |-> None],
   [assignments |-> Some(<<[samples |-> None,
                           dataset |-> Some(<<[sample |-> 5, well |-> 6]>>)]>>),
    dataset |-> None],
   [assignments |-> None, dataset |-> Some(<<[sample |-> 0, well |-> 1]>>)],
   [assignments |-> None, dataset |-> None],
   [assignments |-> Some(<<>>), dataset |-> None]}

\* smoothed files: two samples with histories, a sample without history,
\* {} and a JSON list
SmoothedFiles ==
  {[kind |-> "object",
    samples |-> Some(<<[sample |-> 1, history |-> <<1, 2>>],
                       [sample |-> 2, history |-> <<3>>]>>)],
   [kind |-> "object", samples |-> Some(<<[sample |-> 3, history |-> <<>>]>>)],
   [kind |-> "object", samples |-> None],
   [kind |-> "list", samples |-> None]}

\* BaselineApp.__init__ when the default file does not exist
InitBaselineApp ==
  /\ prog = "baseline_app"
  /\ app = [self |-> [data |-> None, sample_to_wells |-> <<>>,
                      sample_values |-> <<>>, sample_var |-> 0,
                      well_values |-> <<>>, well_var |-> 0,
                      analyze_button |-> "disabled"],
            event |-> "init", raised |-> FALSE, before |-> None,
            sample_from |-> None, choice_from |-> None]
  /\ t = <<>> /\ y = <<>> /\ opt = None /\ arg = None

\* LogPhaseSmoothedApp.__init__ when the default file does not exist
InitLogPhaseSmoothedApp ==
  /\ prog = "logphase_app"
  /\ app = [self |-> [data |-> None,
                      sample_values |-> <<>>, sample_var |-> 0,
                      history_values |-> <<>>, history_var |-> 0,
                      analyze_button |-> "disabled"],
            event |-> "init", raised |-> FALSE, before |-> None,
            sample_from |-> None, choice_from |-> None]
  /\ t = <<>> /\ y = <<>> /\ opt = None /\ arg = None

Init ==
  /\ \/ /\ \/ InitBaseline /\ arg = None
           \/ InitMean
           \/ InitCleanup
           \/ InitLog /\ arg = None
           \/ InitLongSeries
           \/ InitScenario
           \/ InitRegression
           \/ InitWellBuilder
           \/ InitHistoryBuilder
        /\ app = None
     \/ InitBaselineApp
     \/ InitLogPhaseSmoothedApp
  /\ res02 = NotCalled
  /\ res0 = NotCalled
  /\ reslog = NotCalled
  /\ ret = NotCalled

\* A baseline run hands its series to the two scripts in turn.
\* blank-selection-test0.py calls find_baseline_points
FindBaselinePoints0 ==
  /\ prog = "baseline"
  /\ res0.status = "not_called"
  /\ res0' = find_baseline_points_0(t, y, opt.t_pre, opt.bin_width, opt.tol,
                                    opt.min_consecutive)
  /\ UNCHANGED <<prog, t, y, opt, arg, res02, reslog, ret, app>>

\* blank-selection-test02.py calls find_baseline_points
FindBaselinePoints02 ==
  /\ prog = "baseline"
  /\ res0.status # "not_called"
  /\ res02.status = "not_called"
  /\ res02' = find_baseline_points(t, y, opt.t_pre, opt.bin_width, opt.tol,
                                   opt.min_consecutive)
  /\ UNCHANGED <<prog, t, y, opt, arg, res0, reslog, ret, app>>

\* log_phase_tester_smoothed.py calls detect_log_phase
DetectLogPhase ==
  /\ prog = "logphase"
  /\ reslog.status = "not_called"
  /\ reslog' = detect_log_phase(t, y, opt.window_size, opt.r2_min, opt.od_min,
                                opt.frac_k_max, opt.mu_rel_min, opt.mu_rel_max)
  /\ UNCHANGED <<prog, t, y, opt, arg, res02, res0, ret, app>>

\* one window handed to _linear_regression
LinearRegression ==
  /\ prog = "regression"
  /\ ret.status = "not_called"
  /\ ret' = [status |-> "returned", value |-> _linear_regression(t, y)]
  /\ UNCHANGED <<prog, t, y, opt, arg, res02, res0, reslog, app>>

\* blank-selection-test02.py builds the series of one well
GetTimeSeriesForWell ==
  /\ prog = "well_builder"
  /\ ret.status = "not_called"
  /\ ret' = get_time_series_for_well(arg.data, arg.well)
  /\ UNCHANGED <<prog, t, y, opt, arg, res02, res0, reslog, app>>

\* log_phase_tester_smoothed.py builds the curve of one sample
GetCurveForSampleHistory ==
  /\ prog = "history_builder"
  /\ ret.status = "not_called"
  /\ ret' = get_curve_for_sample_history(arg.sample_entry, arg.history_label)
  /\ UNCHANGED <<prog, t, y, opt, arg, res02, res0, reslog, app>>

\* the LNDS cleanup of blank-selection-test02.py and the greedy clamp of
\* blank-selection-test0.py, each on the whole sequence with nothing
\* excluded beforehand
MonotonicCleanup ==
  /\ prog = "cleanup"
  /\ ret.status = "not_called"
  /\ ret' = [status |-> "returned",
             lnds |-> lnds_excluded(y, Enumerate(y), opt.eps),
             greedy |-> greedy_excluded(y, opt.eps, {}, None, 0)]
  /\ UNCHANGED <<prog, t, y, opt, arg, res02, res0, reslog, app>>

\* mu_max and mu_mean of the slopes of one run
MeanSlope ==
  /\ prog = "mean"
  /\ ret.status = "not_called"
  /\ ret' = [status |-> "returned",
             muMax |-> MaxOf(y),
             muMean |-> mu_mean_of(y, opt.compensated)]
  /\ UNCHANGED <<prog, t, y, opt, arg, res02, res0, reslog, app>>

(***************************************************************************)
(* The event handlers of the two applications.  Next to the session, app   *)
(* records the last event, the session before it, whether _load_json       *)
(* raised, and the payloads the current sample and the current well or     *)
(* history were taken from.                                                *)
(***************************************************************************)
\* _load_from_entry with a path to any file or to none
BaselineApp_load_from_entry ==
  /\ prog = "baseline_app"
  /\ \E file \in {None} \cup {Some(p) : p \in AssignmentFiles} :
       LET done == BaselineApp_load_json(app.self, file)
       IN  app' = [self |-> done.self, event |-> "load",
                   raised |-> done.raised, before |-> app.self,
                   sample_from |-> IF done.raised THEN app.sample_from ELSE file,
                   choice_from |-> IF done.raised THEN app.choice_from ELSE file]
  /\ UNCHANGED <<prog, t, y, opt, arg, res02, res0, reslog, ret>>

\* <<ComboboxSelected>> of sample_combo
BaselineApp_sample_selected ==
  /\ prog = "baseline_app"
  /\ \E name \in ToSet(app.self.sample_values) :
       app' = [app EXCEPT
                 !.self = BaselineApp_on_sample_selected(
                            [app.self EXCEPT !.sample_var = name]),
                 !.event = "sample", !.raised = FALSE, !.before = app.self,
                 !.choice_from = app.sample_from]
  /\ UNCHANGED <<prog, t, y, opt, arg, res02, res0, reslog, ret>>

\* <<ComboboxSelected>> of well_combo
BaselineApp_well_selected ==
  /\ prog = "baseline_app"
  /\ \E well \in ToSet(app.self.well_values) :
       app' = [app EXCEPT
                 !.self = BaselineApp_update_button_state(
                            [app.self EXCEPT !.well_var = well]),
                 !.event = "well", !.raised = FALSE, !.before = app.self]
  /\ UNCHANGED <<prog, t, y, opt, arg, res02, res0, reslog, ret>>

\* _load_from_entry with a path to any file or to none
LogPhaseSmoothedApp_load_from_entry ==
  /\ prog = "logphase_app"
  /\ \E file \in {None} \cup {Some(p) : p \in SmoothedFiles} :
       LET done == LogPhaseSmoothedApp_load_json(app.self, file)
       IN  app' = [self |-> done.self, event |-> "load",
                   raised |-> done.raised, before |-> app.self,
                   sample_from |-> IF done.raised THEN app.sample_from ELSE file,
                   choice_from |-> IF done.taken THEN file ELSE app.choice_from]
  /\ UNCHANGED <<prog, t, y, opt, arg, res02, res0, reslog, ret>>

\* <<ComboboxSelected>> of sample_combo
LogPhaseSmoothedApp_sample_selected ==
  /\ prog = "logphase_app"
  /\ \E name \in ToSet(app.self.sample_values) :
       LET done == LogPhaseSmoothedApp_on_sample_selected(
                     [app.self EXCEPT !.sample_var = name])
       IN  app' = [app EXCEPT
                     !.self = done.self,
                     !.event = "sample", !.raised = FALSE, !.before = app.self,
                     !.choice_from = IF done.taken THEN app.self.data
                                     ELSE app.choice_from]
  /\ UNCHANGED <<prog, t, y, opt, arg, res02, res0, reslog, ret>>

\* a choice in history_combo, which has no handler bound
LogPhaseSmoothedApp_history_selected ==
  /\ prog = "logphase_app"
  /\ \E label \in ToSet(app.self.history_values) :
       app' = [app EXCEPT
                 !.self = [app.self EXCEPT !.history_var = label],
                 !.event = "history", !.raised = FALSE, !.before = app.self]
  /\ UNCHANGED <<prog, t, y, opt, arg, res02, res0, reslog, ret>>

Next ==
  \/ FindBaselinePoints02
  \/ BaselineApp_load_from_entry
  \/ BaselineApp_sample_selected
  \/ BaselineApp_well_selected
  \/ LogPhaseSmoothedApp_load_from_entry
  \/ LogPhaseSmoothedApp_sample_selected
  \/ LogPhaseSmoothedApp_history_selected
  \/ MeanSlope
  \/ MonotonicCleanup
  \/ FindBaselinePoints0
  \/ DetectLogPhase
  \/ LinearRegression
  \/ GetTimeSeriesForWell
  \/ GetCurveForSampleHistory

Spec == Init /\ [][Next]_vars

(***************************************************************************)
(* Vocabulary of the properties.                                           *)
(***************************************************************************)
Called(r) == r.status # "not_called"

Returned(r) == r.status = "returned"

Consecutive(s) == \A k \in 1..(Len(s) - 1) : s[k + 1] = s[k] + 1

StrictlyAscending(s) == \A k \in 1..(Len(s) - 1) : s[k] < s[k + 1]

Indices == 0..(Len(y) - 1)

PreWindow == {i \in Indices : At(t, i) <= opt.t_pre}

\* i is a pre-window index whose value lies within tol of the level of r
IsCandidate(r, i) ==
  i \in PreWindow /\ Abs(At(y, i) - r.baselineLevel[1]) <= opt.tol

\* some min_consecutive adjacent index numbers are all candidates
HasRunOfCandidates(r) ==
  \E s \in Indices :
    \A k \in 0..(opt.min_consecutive - 1) : IsCandidate(r, s + k)

BaselineResults == {res02, res0}

(***************************************************************************)
(* C1 as stated: a non-empty baselineIndices is always one block of        *)
(* consecutive integers.                                                   *)
(***************************************************************************)
C1_Original ==
  \A r \in BaselineResults :
    (Returned(r) /\ r.baselineIndices # <<>>) => Consecutive(r.baselineIndices)

(***************************************************************************)
(* C1 amended: a non-empty baselineIndices is one block of consecutive     *)
(* integers whenever some run of min_consecutive adjacent candidates       *)
(* exists, i.e. whenever the all-candidates fallback is not taken.         *)
(***************************************************************************)
C1_BaselineContiguous ==
  \A r \in BaselineResults :
    (Returned(r) /\ r.baselineIndices # <<>> /\ HasRunOfCandidates(r))
      => Consecutive(r.baselineIndices)

\* a run was selected although candidates exist outside of it
C1_Witness ==
  /\ Returned(res02)
  /\ Len(res02.baselineIndices) >= 2
  /\ HasRunOfCandidates(res02)
  /\ \E i \in Indices :
       IsCandidate(res02, i) /\ i \notin ToSet(res02.baselineIndices)

(***************************************************************************)
(* C2: a non-empty logIndices is one block of consecutive integers.        *)
(***************************************************************************)
C2_LogContiguous ==
  (Returned(reslog) /\ reslog.logIndices # <<>>)
    => Consecutive(reslog.logIndices)

\* a log phase was found although the series rises in two separate places
C2_Witness ==
  /\ Returned(reslog)
  /\ reslog.logIndices # <<>>
  /\ \E i, j, k \in Indices :
       /\ i < j /\ j < k
       /\ At(y, i) < At(y, i + 1)
       /\ At(y, j) >= At(y, j + 1)
       /\ k + 1 \in Indices /\ At(y, k) < At(y, k + 1)
       /\ j \notin ToSet(reslog.logIndices)

(***************************************************************************)
(* C3: baselineIndices, excludedIndices and logIndices are strictly        *)
(* ascending (hence free of duplicates) in every returned result.          *)
(***************************************************************************)
C3_Ascending ==
  /\ \A r \in BaselineResults :
       Returned(r) => /\ StrictlyAscending(r.baselineIndices)
                      /\ StrictlyAscending(r.excludedIndices)
  /\ Returned(reslog) => StrictlyAscending(reslog.logIndices)

\* both scripts returned several baseline and several excluded indices
C3_Witness ==
  /\ Returned(res02) /\ Returned(res0)
  /\ Len(res02.baselineIndices) >= 2 /\ Len(res02.excludedIndices) >= 2
  /\ Len(res0.excludedIndices) >= 2

\* indices from the first baseline index on, up to MONO_T_MAX, not excluded
Retained(r) ==
  {i \in Indices : /\ i >= r.baselineIndices[1]
                   /\ At(t, i) <= MONO_T_MAX
                   /\ i \notin ToSet(r.excludedIndices)}

IsChain(S, eps) ==
  \A a, b \in S :
    (a < b /\ ~(\E c \in S : a < c /\ c < b)) => At(y, a) <= At(y, b) + eps

ValuesAt(s) == [k \in 1..Len(s) |-> At(y, s[k])]

(***************************************************************************)
(* C4: the monotonic cleanup is idempotent.  The retained points of the    *)
(* cleanup window form a chain, and a second run of the cleanup on the     *)
(* retained points alone excludes nothing.                                 *)
(***************************************************************************)
C4_CleanupIdempotent ==
  /\ (Returned(res02) /\ res02.baselineIndices # <<>>) =>
       /\ IsChain(Retained(res02), MONO_EPS)
       /\ lnds_excluded(y, SortedSet(Retained(res02)), MONO_EPS) = {}
  /\ (Returned(res0) /\ res0.baselineIndices # <<>>) =>
       /\ IsChain(Retained(res0), MONO_EPS_0)
       /\ greedy_excluded(ValuesAt(SortedSet(Retained(res0))), MONO_EPS_0,
                          {}, None, 0) = {}

\* both cleanups excluded a point of the window and kept several others
C4_Witness ==
  /\ Returned(res02) /\ res02.baselineIndices # <<>>
  /\ Returned(res0) /\ res0.baselineIndices # <<>>
  /\ \E i \in ToSet(res02.excludedIndices) : i > res02.baselineIndices[1]
  /\ \E i \in ToSet(res0.excludedIndices) : i > res0.baselineIndices[1]
  /\ Cardinality(Retained(res02)) >= 2
  /\ Cardinality(Retained(res0)) >= 2

(***************************************************************************)
(* C6: with fewer than min_consecutive points at time <= t_pre the result  *)
(* is ([], None, []): nothing raised, no baseline, no point excluded.      *)
(***************************************************************************)
C6_TooFewPreWindowPoints ==
  \A r \in BaselineResults :
    (Called(r) /\ Cardinality(PreWindow) < opt.min_consecutive)
      => r = BaselineResult(<<>>, None, <<>>)

\* too few pre-window points in a series that has a drop to clean up
C6_Witness ==
  /\ Called(res02) /\ Called(res0)
  /\ PreWindow # {}
  /\ Cardinality(PreWindow) < opt.min_consecutive
  /\ \E i \in Indices :
       i + 1 \in Indices /\ At(y, i + 1) < At(y, i) - MONO_EPS_0

ValidIndices == {i \in Indices : At(y, i) >= opt.od_min}

(***************************************************************************)
(* C7: the valid indices are those with y[i] >= od_min; with fewer than    *)
(* window_size + 1 of them the result is ([], None, None, None).           *)
(***************************************************************************)
C7_TooFewValidPoints ==
  (Called(reslog) /\ Cardinality(ValidIndices) < opt.window_size + 1)
    => reslog = LogResult(<<>>, None, None, None)

\* the series is long enough, its valid part is not
C7_Witness ==
  /\ Called(reslog)
  /\ opt.window_size >= 1
  /\ Len(y) >= opt.window_size + 1
  /\ Cardinality(ValidIndices) = opt.window_size

(***************************************************************************)
(* C8 as stated: if no value exceeds od_min (every y[i] <= od_min), then   *)
(* logIndices is empty and kEstimate is unknown.                           *)
(***************************************************************************)
C8_Original ==
  (Called(reslog) /\ \A i \in Indices : At(y, i) <= opt.od_min)
    => /\ Returned(reslog)
       /\ reslog.logIndices = <<>>
       /\ reslog.kEstimate = None

(***************************************************************************)
(* C8 amended: if every value is below od_min (every y[i] < od_min), then  *)
(* logIndices is empty and kEstimate is unknown.                           *)
(***************************************************************************)
C8_NeverReachesOdMin ==
  (Called(reslog) /\ \A i \in Indices : At(y, i) < opt.od_min)
    => /\ Returned(reslog)
       /\ reslog.logIndices = <<>>
       /\ reslog.kEstimate = None

\* a long enough series of positive values, all below od_min
C8_Witness ==
  /\ Called(reslog)
  /\ opt.window_size >= 1
  /\ Len(y) >= opt.window_size + 1
  /\ \A i \in Indices : At(y, i) > 0 /\ At(y, i) < opt.od_min

(***************************************************************************)
(* C9: on the empty series both engines return their insufficient-data     *)
(* result and do not raise.                                                *)
(***************************************************************************)
C9_EmptySeries ==
  Len(t) = 0 =>
    /\ \A r \in BaselineResults :
         Called(r) => r = BaselineResult(<<>>, None, <<>>)
    /\ Called(reslog) => reslog = LogResult(<<>>, None, None, None)

ComputationFaults ==
  {"ValueError: min() arg is an empty sequence",
   "ValueError: max() arg is an empty sequence",
   "ZeroDivisionError: division by zero"}

IsConfigurationError(r) ==
  r.status = "raised" /\ r.error \notin ComputationFaults

(***************************************************************************)
(* C10: a call with window_size <= 0, tol <= 0 or bin_width <= 0 ends      *)
(* with a configuration error: it neither returns a result nor fails with  *)
(* a fault of the computation.                                             *)
(***************************************************************************)
C10_InvalidConfigurationFailsFast ==
  /\ \A r \in BaselineResults :
       (Called(r) /\ (opt.tol <= 0 \/ opt.bin_width <= 0))
         => IsConfigurationError(r)
  /\ (Called(reslog) /\ opt.window_size <= 0) => IsConfigurationError(reslog)

(***************************************************************************)
(* _linear_regression on a flat window.                                    *)
(***************************************************************************)
AllEqual(s) == \A j, k \in 1..Len(s) : s[j] = s[k]

RegressionDone == prog = "regression" /\ ret.status = "returned"

FlatFit == [slope |-> <<0, 1>>, r2 |-> <<1, 1>>]

First(r) == r.baselineIndices[1]

HasBaseline(r) == Returned(r) /\ r.baselineIndices # <<>>

\* the excluded indices from the first baseline index on
ExcludedFromFirst(r) == {i \in ToSet(r.excludedIndices) : i >= First(r)}

\* the value at p lies more than eps below the value of its predecessor
DropsAt(r, eps, p) ==
  p \in Indices /\ p > First(r) /\ At(y, p) < At(y, p - 1) - eps

\* every other point from the first baseline index on exceeds its predecessor
RisesElsewhere(r, p) ==
  \A i \in Indices : (i > First(r) /\ i # p) => At(y, i) > At(y, i - 1)

\* without p the series is strictly increasing from the first baseline index
RisesWithout(r, p) ==
  \A a, b \in Indices \ {p} : (First(r) <= a /\ a < b) => At(y, a) < At(y, b)

\* no point kept before the first baseline index lies more than eps above it
NoHigherStart(r, eps) ==
  \A i \in Indices :
    (i < First(r) /\ i \notin ToSet(r.excludedIndices))
      => At(y, i) <= At(y, First(r)) + eps

\* C12 as stated: when exactly one point after the first baseline index
\* drops more than the monotone epsilon below its predecessor and every
\* other point rises, both scripts exclude that point and no other point
\* from the first baseline index on.
C12_Original ==
  /\ \A p \in Indices :
       (HasBaseline(res02) /\ DropsAt(res02, MONO_EPS, p)
          /\ RisesElsewhere(res02, p))
         => ExcludedFromFirst(res02) = {p}
  /\ \A p \in Indices :
       (HasBaseline(res0) /\ DropsAt(res0, MONO_EPS_0, p)
          /\ RisesElsewhere(res0, p))
         => ExcludedFromFirst(res0) = {p}

\* C12: when one point p after the first baseline index drops more than the
\* monotone epsilon below its predecessor and the series without p is
\* strictly increasing from the first baseline index on, then
\* blank-selection-test02 excludes p and no other point from the first
\* baseline index on if t[p] <= MONO_T_MAX, and blank-selection-test0
\* excludes p, and no other point from the first baseline index on if no
\* point kept before the first baseline index lies more than the epsilon
\* above the value at the first baseline index.
C12_SingleDownwardSpike ==
  /\ \A p \in Indices :
       (HasBaseline(res02) /\ DropsAt(res02, MONO_EPS, p)
          /\ RisesWithout(res02, p) /\ At(t, p) <= MONO_T_MAX)
         => ExcludedFromFirst(res02) = {p}
  /\ \A p \in Indices :
       (HasBaseline(res0) /\ DropsAt(res0, MONO_EPS_0, p)
          /\ RisesWithout(res0, p))
         => /\ p \in ToSet(res0.excludedIndices)
            /\ NoHigherStart(res0, MONO_EPS_0) => ExcludedFromFirst(res0) = {p}

\* the worked series 0.05, 0.40, 0.80, 0.30, 1.50: both scripts exclude
\* index 3 alone
C12_Witness ==
  /\ y = DownwardSpike.y
  /\ HasBaseline(res02) /\ HasBaseline(res0)
  /\ DropsAt(res02, MONO_EPS, 3) /\ RisesWithout(res02, 3)
  /\ DropsAt(res0, MONO_EPS_0, 3) /\ RisesWithout(res0, 3)
  /\ res02.excludedIndices = <<3>>
  /\ res0.excludedIndices = <<3>>

(***************************************************************************)
(* Growth after a flat start.                                              *)
(***************************************************************************)
OnFlatStart == t = FlatStart.t /\ y = FlatStart.y /\ opt = FlatStart.opt

\* C13: on t = 0, 10, ..., 70 and y = 0.05, 0.051, 0.049, 0.05, 0.20, 0.40,
\* 0.80, 1.50 with t_pre = 45, tol = 0.01 and min_consecutive = 3,
\* blank-selection-test02 returns a baselineIndices that contains 0..3, the
\* baselineLevel 0.05, and no index >= 4 in baselineIndices or in
\* excludedIndices.
C13_GrowthAfterFlatStart ==
  (OnFlatStart /\ Called(res02))
    => /\ Returned(res02)
       /\ 0..3 \subseteq ToSet(res02.baselineIndices)
       /\ res02.baselineLevel = Some(100)
       /\ \A i \in Indices :
            i >= 4 => /\ i \notin ToSet(res02.baselineIndices)
                      /\ i \notin ToSet(res02.excludedIndices)

\* the call returned on the worked series, whose point at t = 40 lies in
\* the pre-window and far from the level
C13_Witness ==
  /\ OnFlatStart
  /\ Returned(res02)
  /\ 4 \in PreWindow
  /\ res02.baselineIndices = <<0, 1, 2, 3>>

(***************************************************************************)
(* The sliding windows of detect_log_phase, read off the call's inputs.    *)
(***************************************************************************)
ValidSeq == SelectSeq(Enumerate(y), LAMBDA i : i \in ValidIndices)

\* the median of the last five values of valid, or of all of them if fewer
PlateauOf(valid) ==
  LET m == Len(valid)
      from == IF m >= 5 THEN m - 4 ELSE 1
  IN  median([k \in 1..(m - from + 1) |-> At(y, valid[from + k - 1])])

\* the call gets as far as the sliding-window loop
ReachesWindows ==
  LET valid == ValidSeq
  IN  /\ opt.window_size >= 1
      /\ Len(t) > 0
      /\ Len(valid) >= opt.window_size + 1
      /\ PlateauOf(valid) > 0

\* the slope of the window idxs if it passes the plateau, positivity,
\* slope and R^2 filters, None if it does not
QualifyingSlope(idxs, K) ==
  LET T == [j \in 1..Len(idxs) |-> At(t, idxs[j])]
      Y == [j \in 1..Len(idxs) |-> At(y, idxs[j])]
      fit == _linear_regression(T, [j \in 1..Len(Y) |-> log(Y[j])])
  IN  IF /\ \A j \in 1..Len(Y) :
              Y[j] * opt.frac_k_max[2] < opt.frac_k_max[1] * K /\ Y[j] > 0
         /\ fit # None
         /\ fit[1].slope[1] > 0
         /\ RatLeq(opt.r2_min, fit[1].r2)
      THEN Some(fit[1].slope) ELSE None

\* the slopes of the qualifying windows of window_size adjacent valid points
QualifyingSlopes ==
  LET valid == ValidSeq
      K == PlateauOf(valid)
      w == opt.window_size
  IN  {QualifyingSlope(SubSeq(valid, k + 1, k + w), K) :
         k \in 0..(Len(valid) - w)} \ {None}

\* C14: once the sliding-window loop is reached, muMax is the greatest slope
\* of the qualifying windows if there is one, and otherwise the result is
\* an empty logIndices, muMax and muMean None, and kEstimate the plateau
\* estimate.
C14_MuMax ==
  (Returned(reslog) /\ ReachesWindows)
    => LET slopes == QualifyingSlopes
       IN  IF slopes = {}
           THEN reslog = LogResult(<<>>, None, None, Some(PlateauOf(ValidSeq)))
           ELSE /\ reslog.muMax \in slopes
                /\ \A s \in slopes : RatLeq(s[1], reslog.muMax[1])

\* windows of different slopes qualify and muMax is the greater slope
C14_Witness ==
  /\ Returned(reslog)
  /\ ReachesWindows
  /\ \E a, b \in QualifyingSlopes : RatLt(a[1], b[1]) /\ reslog.muMax = b

(***************************************************************************)
(* The series a builder returns, against the samples it was given.         *)
(***************************************************************************)
\* the (time, value) samples of the payload in their order of encounter
BuilderSamples ==
  IF prog = "well_builder"
  THEN LET mine == SelectSeq(arg.data, LAMBDA row : row.well = arg.well)
       IN  [k \in 1..Len(mine) |-> <<mine[k].time_min, mine[k].val_od600>>]
  ELSE LET points ==
             selected_history(arg.sample_entry.history, arg.history_label)[1].points
       IN  [k \in 1..Len(points) |-> <<points[k].x, points[k].y>>]

Bijections(n) ==
  {f \in [1..n -> 1..n] : \A j, k \in 1..n : f[j] = f[k] => j = k}

\* out holds the samples of in, each once, in ascending time, and samples
\* of equal time in the order they have in in
IsStableSortOf(out, in) ==
  /\ Len(out) = Len(in)
  /\ \E f \in Bijections(Len(in)) :
       /\ \A k \in 1..Len(in) : out[k] = in[f[k]]
       /\ \A j, k \in 1..Len(in) :
            j < k => \/ out[j][1] < out[k][1]
                     \/ out[j][1] = out[k][1] /\ f[j] < f[k]

\* C15: every series that get_time_series_for_well or
\* get_curve_for_sample_history returns holds the samples of the payload
\* sorted ascending by time, samples of equal time in their order of
\* encounter, none dropped and none deduplicated.
C15_BuildersSortByTime ==
  (prog \in {"well_builder", "history_builder"} /\ Returned(ret))
    => IsStableSortOf(Zip(ret.t, ret.y), BuilderSamples)

(***************************************************************************)
(* The predecessor pointers of the LNDS cleanup.                           *)
(***************************************************************************)
\* the last index inside the cleanup window, -1 if there is none
LastInWindow ==
  IF \E i \in Indices : At(t, i) <= MONO_T_MAX
  THEN CHOOSE i \in Indices :
         /\ At(t, i) <= MONO_T_MAX
         /\ \A j \in Indices : At(t, j) <= MONO_T_MAX => j <= i
  ELSE -1

\* the walk from k along prev_idx reaches -1 within fuel steps
RECURSIVE WalkReachesEnd(_, _, _)
WalkReachesEnd(prev_idx, k, fuel) ==
  IF k = -1 THEN TRUE
  ELSE IF fuel = 0 THEN FALSE
  ELSE WalkReachesEnd(prev_idx, prev_idx[k], fuel - 1)

\* C16: the predecessor walk of the cleanup terminates.  For every series
\* about to be handed to blank-selection-test02, and whatever pre-window
\* index the cleanup window starts at, each predecessor that the dynamic
\* programme stores is -1 or a position strictly before its own, best_end
\* is a position of the window, and the walk from best_end reaches -1
\* within as many steps as the window has points.
C16_WalkTerminates ==
  (prog = "baseline" /\ ~Called(res02)) =>
    \A s \in PreWindow :
      LET m == LastInWindow - s + 1
          dp == lnds_dp([k \in 0..(m - 1) |-> At(y, s + k)], MONO_EPS)
      IN  /\ \A k \in 0..(m - 1) :
               dp.prev_idx[k] >= -1 /\ dp.prev_idx[k] < k
          /\ dp.best_end \in 0..(m - 1)
          /\ WalkReachesEnd(dp.prev_idx, dp.best_end, m)

\* the cleanup of a returned call walked over three or more kept points
\* and left one out
C16_Witness ==
  /\ HasBaseline(res02)
  /\ Cardinality(Retained(res02)) >= 3
  /\ ExcludedFromFirst(res02) # {}

(***************************************************************************)
(* The histogram mode, read off the call's inputs.                         *)
(***************************************************************************)
\* the median of the bin of greatest count, the bin with the earliest
\* first member among bins of equal count; bins are
\* floor((y[i] - min) / bin_width) over the pre-window
HistogramLevel ==
  LET pre == PreWindow
      lo == CHOOSE v \in {At(y, i) : i \in pre} :
              \A i \in pre : v <= At(y, i)
      bin == [i \in pre |-> (At(y, i) - lo) \div opt.bin_width]
      count == [i \in pre |-> Cardinality({j \in pre : bin[j] = bin[i]})]
      first == CHOOSE i \in pre :
                 /\ \A j \in pre : count[j] <= count[i]
                 /\ \A j \in pre : j < i => count[j] < count[i]
  IN  median(ValuesAt(SortedSet({j \in pre : bin[j] = bin[first]})))

\* C17: for bin_width > 0, whenever a level is returned, baselineLevel is
\* the median (the mean of the two middle values for an even count) of the
\* values of the winning bin, where each pre-window value falls into bin
\* floor((value - min) / bin_width), the winning bin has the greatest count,
\* and among bins of equal count the one created first in the scan by
\* ascending index wins.
C17_HistogramMode ==
  \A r \in BaselineResults :
    (Returned(r) /\ r.baselineLevel # None /\ opt.bin_width > 0)
      => r.baselineLevel = Some(HistogramLevel)

\* two bins tie for the greatest count and the one met first, which holds
\* the higher values, gives the level
C17_Witness ==
  /\ Returned(res02)
  /\ opt.bin_width = BIN_WIDTH
  /\ \E i, j \in PreWindow :
       /\ i < j
       /\ At(y, i) > At(y, j)
       /\ Cardinality({k \in PreWindow : At(y, k) = At(y, i)}) = 2
       /\ Cardinality({k \in PreWindow : At(y, k) = At(y, j)}) = 2
       /\ res02.baselineLevel = Some(At(y, i))

(***************************************************************************)
(* The run selection, read off the call's inputs and the returned level.   *)
(***************************************************************************)
Candidates(r) == {i \in Indices : IsCandidate(r, i)}

\* a..b is a maximal run of adjacent candidates
IsRun(C, a, b) ==
  /\ a <= b
  /\ \A i \in a..b : i \in C
  /\ (a - 1) \notin C
  /\ (b + 1) \notin C

\* the run selected from the candidate set C: the earliest of the longest
\* runs if some run has min_consecutive members, else every candidate
SelectedRun(C) ==
  IF \E a, b \in C : IsRun(C, a, b) /\ b - a + 1 >= opt.min_consecutive
  THEN LET run == CHOOSE ab \in C \X C :
                    /\ IsRun(C, ab[1], ab[2])
                    /\ \A c, d \in C :
                         IsRun(C, c, d) =>
                           \/ d - c < ab[2] - ab[1]
                           \/ d - c = ab[2] - ab[1] /\ ab[1] <= c
       IN  [k \in 1..(run[2] - run[1] + 1) |-> run[1] + k - 1]
  ELSE SortedSet(C)

\* C18: whenever a level is returned, baselineIndices is the earliest of the
\* longest maximal runs of adjacent candidates (pre-window indices whose
\* value lies within tol of baselineLevel) if some run has at least
\* min_consecutive members, and the whole candidate set if none has; so
\* every baseline index has time <= t_pre and a value within tol of the
\* level.
C18_RunSelection ==
  \A r \in BaselineResults :
    (Returned(r) /\ r.baselineLevel # None)
      => /\ r.baselineIndices = SelectedRun(Candidates(r))
         /\ \A i \in ToSet(r.baselineIndices) : IsCandidate(r, i)

\* two runs of the same length reach min_consecutive and the earlier one
\* is returned
C18_Witness ==
  /\ Returned(res02)
  /\ res02.baselineLevel # None
  /\ opt.min_consecutive >= 1
  /\ \E a, b, c, d \in Candidates(res02) :
       /\ IsRun(Candidates(res02), a, b)
       /\ IsRun(Candidates(res02), c, d)
       /\ b < c
       /\ b - a = d - c
       /\ b - a + 1 >= opt.min_consecutive
       /\ res02.baselineIndices[1] = a

(***************************************************************************)
(* C19: when blank-selection-test02 returns a non-empty baselineIndices,   *)
(* an index before the first baseline index is in excludedIndices exactly  *)
(* when its time is <= t_pre and its value lies more than tol from the     *)
(* level; pre-window points before the baseline within tol are kept.       *)
(***************************************************************************)
C19_PreBaselineExclusion ==
  HasBaseline(res02) =>
    \A i \in Indices :
      i < First(res02) =>
        (i \in ToSet(res02.excludedIndices)
           <=> /\ At(t, i) <= opt.t_pre
               /\ Abs(At(y, i) - res02.baselineLevel[1]) > opt.tol)

\* before the first baseline index one point is excluded and another,
\* within tol of the level, is kept
C19_Witness ==
  /\ HasBaseline(res02)
  /\ \E i, j \in Indices :
       /\ i < First(res02) /\ j < First(res02)
       /\ i \in ToSet(res02.excludedIndices)
       /\ j \notin ToSet(res02.excludedIndices)
       /\ IsCandidate(res02, j)

\* the indices from the first baseline index on, up to MONO_T_MAX
CleanupWindow(r) ==
  {i \in Indices : i >= First(r) /\ At(t, i) <= MONO_T_MAX}

(***************************************************************************)
(* C20: the cleanup of blank-selection-test02 is an exact LNDS filter.     *)
(* With W the indices from the first baseline index on with                *)
(* t <= MONO_T_MAX, the indices of W that are not excluded form a chain    *)
(* (consecutive kept a < b have y[a] <= y[b] + MONO_EPS), no chain in W    *)
(* has more members, and no index from the first baseline index on with    *)
(* t > MONO_T_MAX is excluded.                                             *)
(***************************************************************************)
C20_ExactLNDS ==
  HasBaseline(res02) =>
    LET W == CleanupWindow(res02)
        kept == W \ ToSet(res02.excludedIndices)
        longer == {S \in SUBSET W : Cardinality(S) > Cardinality(kept)}
    IN  /\ IsChain(kept, MONO_EPS)
        /\ \A S \in longer : ~IsChain(S, MONO_EPS)
        /\ \A i \in ToSet(res02.excludedIndices) :
             i >= First(res02) => i \in W

\* part of the window is excluded, and a later drop past MONO_T_MAX is not
C20_Witness ==
  /\ HasBaseline(res02)
  /\ Cardinality(CleanupWindow(res02)) >= 3
  /\ \E i \in CleanupWindow(res02) : i \in ToSet(res02.excludedIndices)
  /\ \E j \in Indices :
       /\ At(t, j) > MONO_T_MAX
       /\ At(y, j) < At(y, j - 1)
       /\ j \notin ToSet(res02.excludedIndices)

(***************************************************************************)
(* The two cleanups on the same sequence with the same epsilon.            *)
(***************************************************************************)
CleanupDone == prog = "cleanup" /\ ret.status = "returned"

\* C21: on the same sequence of points with the same epsilon, the greedy
\* clamp of blank-selection-test0 excludes at least as many points as the
\* LNDS cleanup of blank-selection-test02, so the LNDS cleanup retains at
\* least as many points as the greedy clamp.
C21_GreedyRetainsNoMore ==
  CleanupDone => Cardinality(ret.lnds) <= Cardinality(ret.greedy)

\* after a point that rises above all later ones the greedy clamp drops
\* two points where the LNDS cleanup drops one
C21_Witness ==
  /\ CleanupDone
  /\ Cardinality(ret.lnds) = 1
  /\ Cardinality(ret.greedy) = 2

(***************************************************************************)
(* The plateau estimate of detect_log_phase.                               *)
(***************************************************************************)
\* the call gets as far as the plateau estimate
ReachesPlateau ==
  /\ Len(t) > 0
  /\ Len(ValidSeq) > 0
  /\ Len(ValidSeq) >= opt.window_size + 1

\* C22: a known kEstimate is the median of the values at the last
\* min(5, number of valid indices) valid indices and is strictly positive;
\* when that median is <= 0 the call returns ([], None, None, None), also
\* for a window size whose first window would raise.
C22_PlateauEstimate ==
  /\ Returned(reslog) /\ reslog.kEstimate # None
       => /\ ReachesPlateau
          /\ reslog.kEstimate = Some(PlateauOf(ValidSeq))
          /\ reslog.kEstimate[1] > 0
  /\ (Called(reslog) /\ ReachesPlateau /\ PlateauOf(ValidSeq) <= 0)
       => reslog = LogResult(<<>>, None, None, None)

\* more than five valid points whose median differs from that of the last
\* five, and the estimate is known
C22_Witness ==
  /\ Returned(reslog)
  /\ reslog.kEstimate # None
  /\ Len(ValidSeq) > 5
  /\ reslog.kEstimate[1] # median([k \in 1..Len(ValidSeq) |-> At(y, ValidSeq[k])])

\* the median of the tail is not positive and the call aborts
C22_Abort ==
  /\ Called(reslog)
  /\ ReachesPlateau
  /\ PlateauOf(ValidSeq) <= 0

(***************************************************************************)
(* The qualifying windows of detect_log_phase, read off the call's inputs. *)
(***************************************************************************)
\* the windows of window_size adjacent valid indices, in order
AllWindows ==
  LET valid == ValidSeq
      w == opt.window_size
  IN  [k \in 1..(Len(valid) - w + 1) |-> SubSeq(valid, k, k + w - 1)]

\* the qualifying windows in order: first and last index, and slope
QualifyingWindows ==
  LET K == PlateauOf(ValidSeq)
      all == AllWindows
      fits == [k \in 1..Len(all) |->
                 [start_idx |-> all[k][1],
                  end_idx |-> Last(all[k]),
                  fit |-> QualifyingSlope(all[k], K)]]
      good == SelectSeq(fits, LAMBDA w : w.fit # None)
  IN  [k \in 1..Len(good) |->
         [start_idx |-> good[k].start_idx, end_idx |-> good[k].end_idx,
          slope |-> good[k].fit[1]]]

\* the windows the sliding-window loop of the call appends
AppendedWindows ==
  LET wins == good_windows(t, y, ValidSeq, opt.window_size,
                           PlateauOf(ValidSeq), opt.r2_min, opt.frac_k_max,
                           0, <<>>).wins
  IN  [k \in 1..Len(wins) |->
         [start_idx |-> wins[k].start_idx, end_idx |-> wins[k].end_idx,
          slope |-> wins[k].slope]]

\* the window rises below the plateau with a fit whose R^2 is too small
FailsOnlyR2(idxs) ==
  LET K == PlateauOf(ValidSeq)
      T == [j \in 1..Len(idxs) |-> At(t, idxs[j])]
      Y == [j \in 1..Len(idxs) |-> At(y, idxs[j])]
      fit == _linear_regression(T, [j \in 1..Len(Y) |-> log(Y[j])])
  IN  /\ \A j \in 1..Len(Y) :
           Y[j] * opt.frac_k_max[2] < opt.frac_k_max[1] * K /\ Y[j] > 0
      /\ fit # None
      /\ fit[1].slope[1] > 0
      /\ RatLt(fit[1].r2, opt.r2_min)

\* C23: once the sliding-window loop is reached, the windows the loop keeps
\* are exactly the windows of window_size adjacent valid indices whose
\* values are all > 0 and < frac_k_max * kEstimate and whose regression of
\* ln(value) on time is defined with slope > 0 and R^2 >= r2_min; muMax is
\* known exactly when one qualifies, it is the slope of a qualifying window,
\* and every index of logIndices lies in the span of a qualifying window.
C23_WindowQualification ==
  (Returned(reslog) /\ ReachesWindows)
    => LET good == QualifyingWindows
       IN  /\ AppendedWindows = good
           /\ (reslog.muMax # None) = (good # <<>>)
           /\ reslog.muMax # None
                => \E k \in 1..Len(good) : reslog.muMax[1] = good[k].slope
           /\ \A i \in ToSet(reslog.logIndices) :
                \E k \in 1..Len(good) :
                  good[k].start_idx <= i /\ i <= good[k].end_idx

\* one window qualifies, another fails the R^2 test alone, and no index of
\* logIndices lies outside the qualifying windows
C23_Witness ==
  /\ Returned(reslog)
  /\ ReachesWindows
  /\ QualifyingWindows # <<>>
  /\ \E k \in 1..Len(AllWindows) : FailsOnlyR2(AllWindows[k])
  /\ reslog.logIndices # <<>>

(***************************************************************************)
(* The selected windows of detect_log_phase, read off the call's inputs.   *)
(***************************************************************************)
\* the greatest slope of the qualifying windows good
GreatestSlope(good) ==
  good[CHOOSE k \in 1..Len(good) :
         \A j \in 1..Len(good) : RatLeq(good[j].slope, good[k].slope)].slope

\* the slope lies in the band around the greatest slope top
InBand(slope, top) ==
  /\ RatLeq(RatMul(opt.mu_rel_min, top), slope)
  /\ RatLeq(slope, RatMul(opt.mu_rel_max, top))

\* the first window of good with the greatest slope top
FirstSteepest(good, top) ==
  good[CHOOSE k \in 1..Len(good) :
         /\ good[k].slope = top
         /\ \A j \in 1..(k - 1) : good[j].slope # top]

\* the windows of good in the band, or the first steepest one if none is
SelectedAmong(good) ==
  LET top == GreatestSlope(good)
      near == SelectSeq(good, LAMBDA w : InBand(w.slope, top))
  IN  IF near = <<>> THEN <<FirstSteepest(good, top)>> ELSE near

SelectedWindows == SelectedAmong(QualifyingWindows)

\* the indices from the first to the last index of a window
Span(w) == w.start_idx..w.end_idx

\* C24: when a window qualifies, the selected windows are the qualifying
\* windows whose slope s satisfies mu_rel_min * muMax <= s <= mu_rel_max *
\* muMax, or, if there is none, the first qualifying window of slope muMax
\* alone; the selection is never empty, logIndices is non-empty and lies in
\* the spans of the selected windows, and in the fallback case logIndices
\* is the span of that one window.
C24_WindowSelection ==
  (Returned(reslog) /\ ReachesWindows)
    => LET good == QualifyingWindows
           top == GreatestSlope(good)
           sel == SelectedAmong(good)
       IN  good # <<>>
             => /\ log_windows(good, top, opt.mu_rel_min, opt.mu_rel_max) = sel
                /\ sel # <<>>
                /\ reslog.logIndices # <<>>
                /\ \A i \in ToSet(reslog.logIndices) :
                     \E k \in 1..Len(sel) : i \in Span(sel[k])
                /\ (\A k \in 1..Len(good) : ~InBand(good[k].slope, top))
                     => /\ sel = <<FirstSteepest(good, top)>>
                        /\ ToSet(reslog.logIndices) = Span(sel[1])

\* no qualifying window lies in the band, two of them share the greatest
\* slope, and logIndices is the span of the first
C24_Witness ==
  /\ Returned(reslog)
  /\ ReachesWindows
  /\ LET good == QualifyingWindows
         top == GreatestSlope(good)
     IN  /\ good # <<>>
         /\ \A k \in 1..Len(good) : ~InBand(good[k].slope, top)
         /\ \E j, k \in 1..Len(good) :
              j < k /\ good[j].slope = top /\ good[k].slope = top
         /\ ToSet(reslog.logIndices) = Span(FirstSteepest(good, top))

\* a qualifying window below the band is left out of the selection
C24_BelowBand ==
  /\ Returned(reslog)
  /\ ReachesWindows
  /\ LET good == QualifyingWindows
         top == GreatestSlope(good)
     IN  /\ good # <<>>
         /\ Len(SelectedAmong(good)) < Len(good)
         /\ \E k \in 1..Len(good) : InBand(good[k].slope, top)

(***************************************************************************)
(* The run of detect_log_phase, read off the call's inputs.                *)
(***************************************************************************)
\* the valid indices a window is made of
WindowIndices(w) == {i \in ValidIndices : w.start_idx <= i /\ i <= w.end_idx}

\* the maximal runs of consecutive indices of S
MaximalRuns(S) ==
  {R \in {a..b : a, b \in S} :
     /\ R # {}
     /\ R \subseteq S
     /\ \A i \in R : i - 1 \in S => i - 1 \in R
     /\ \A i \in R : i + 1 \in S => i + 1 \in R}

\* the least member of a non-empty set of indices
Least(S) == CHOOSE a \in S : \A b \in S : a <= b

\* li is the longest of the runs, the earliest of the longest ones
LongestEarliest(li, runs) ==
  /\ li \in runs
  /\ \A R \in runs :
       /\ Cardinality(R) <= Cardinality(li)
       /\ Cardinality(R) = Cardinality(li) => Least(li) <= Least(R)

\* C25: when a window qualifies, logIndices is the longest maximal run of
\* consecutive indices (the earliest on ties) among the indices covered by
\* the selected windows, a window covering its window_size valid indices;
\* every index of logIndices belongs to a selected window and has a value
\* >= od_min.
C25_RunExtraction ==
  (Returned(reslog) /\ ReachesWindows /\ QualifyingWindows # <<>>)
    => LET li == ToSet(reslog.logIndices)
           sel == SelectedWindows
           covered == UNION {WindowIndices(sel[k]) : k \in 1..Len(sel)}
       IN  /\ \A i \in li : i \in covered /\ At(y, i) >= opt.od_min
           /\ LongestEarliest(li, MaximalRuns(covered))

\* the same with a window covering every index from its first to its last
C25_SpanRuns ==
  (Returned(reslog) /\ ReachesWindows /\ QualifyingWindows # <<>>)
    => LET li == ToSet(reslog.logIndices)
           sel == SelectedWindows
           covered == UNION {Span(sel[k]) : k \in 1..Len(sel)}
       IN  /\ StrictlyAscending(reslog.logIndices)
           /\ LongestEarliest(li, MaximalRuns(covered))

(***************************************************************************)
(* The mean slope of detect_log_phase, read off the call's inputs.         *)
(***************************************************************************)
\* the windows of sel whose span meets the span of logIndices
OverlappingAmong(sel) ==
  LET first == reslog.logIndices[1]
      last == Last(reslog.logIndices)
  IN  SelectSeq(sel, LAMBDA w : w.start_idx <= last /\ first <= w.end_idx)

OverlappingWindows == OverlappingAmong(SelectedWindows)

\* the rationals a and b are equal
RatEq(a, b) == a[1] * b[2] = b[1] * a[2]

\* C26: when logIndices is non-empty, muMean times the number of selected
\* windows whose span [start, end] meets the span [first, last] of
\* logIndices is the sum of the slopes of those windows, so windows lying
\* outside the chosen run do not contribute; muMean is muMax instead only
\* when no selected window meets the run.
C26_MeanSlope ==
  (Returned(reslog) /\ ReachesWindows /\ reslog.logIndices # <<>>)
    => LET over == OverlappingWindows
           slopes == [k \in 1..Len(over) |-> over[k].slope]
       IN  /\ reslog.muMean # None
           /\ over # <<>>
                => RatEq(RatMul(reslog.muMean[1], <<Len(over), 1>>),
                         RatSum(slopes))
           /\ over = <<>> => reslog.muMean = reslog.muMax

\* a selected window of another slope lies outside the chosen run
C26_Witness ==
  /\ Returned(reslog)
  /\ ReachesWindows
  /\ reslog.logIndices # <<>>
  /\ LET sel == SelectedWindows
     IN  \E k \in 1..Len(sel) :
           /\ sel[k].start_idx > Last(reslog.logIndices)
           /\ ~RatEq(sel[k].slope, reslog.muMean[1])

\* windows of different slopes meet the chosen run
C26_MixedRun ==
  /\ Returned(reslog)
  /\ ReachesWindows
  /\ reslog.logIndices # <<>>
  /\ LET over == OverlappingWindows
     IN  \E j, k \in 1..Len(over) : ~RatEq(over[j].slope, over[k].slope)

(***************************************************************************)
(* The shape of the result of detect_log_phase.                            *)
(***************************************************************************)
\* for window_size >= 1 a returned result has a known muMax exactly when
\* logIndices is non-empty, and then logIndices has at least window_size
\* indices, muMean and kEstimate are known, a selected window meets the
\* run, and the exact mean of the slopes is at most muMax
ShapeOfResult ==
  (Returned(reslog) /\ opt.window_size >= 1)
    => /\ (reslog.muMax # None) = (reslog.logIndices # <<>>)
       /\ reslog.logIndices # <<>>
            => /\ Len(reslog.logIndices) >= opt.window_size
               /\ reslog.muMean # None
               /\ reslog.kEstimate # None
               /\ RatLeq(reslog.muMean[1], reslog.muMax[1])
               /\ OverlappingWindows # <<>>
       /\ reslog.logIndices = <<>> => reslog.muMean = None

\* the mean and the greatest of the slopes of a run were computed
MeanDone == prog = "mean" /\ ret.status = "returned"

\* C27: for window_size >= 1 a returned result has a known muMax exactly
\* when logIndices is non-empty, and then logIndices has at least
\* window_size indices, muMean and kEstimate are known and muMean <= muMax,
\* also as the mean is computed in floating point; a known muMax never
\* comes with an empty logIndices, and muMean is never the fallback.
C27_ResultShape ==
  /\ ShapeOfResult
  /\ MeanDone => ret.muMean <= ret.muMax

\* a non-empty run whose exact mean slope is below muMax
C27_BelowMax ==
  /\ Returned(reslog)
  /\ opt.window_size >= 1
  /\ reslog.logIndices # <<>>
  /\ RatLt(reslog.muMean[1], reslog.muMax[1])

\* the floating-point mean of one slope is that slope
C27_MeanOfOne ==
  (MeanDone /\ Len(y) = 1) => ret.muMean = y[1]

(***************************************************************************)
(* The session of an application across a load that raises.                *)
(***************************************************************************)
InApp == prog \in {"baseline_app", "logphase_app"}

\* the last event was a load attempt that raised
LoadRaised == InApp /\ app.event = "load" /\ app.raised

\* C28: in BaselineApp and LogPhaseSmoothedApp a load attempt that raises
\* leaves data, sample_to_wells, the selected sample and well or history
\* and the state of the analyze button as they were before the attempt,
\* and the analyze button is enabled only when the held data is the
\* payload the current sample and well or history were taken from.
C28_FailedLoadKeepsSession ==
  /\ LoadRaised => app.self = app.before
  /\ (InApp /\ app.self.analyze_button = "normal")
       => app.self.data = app.sample_from /\ app.self.data = app.choice_from

\* a missing file leaves the session of a loaded application as it was
C28_MissingFile ==
  /\ LoadRaised
  /\ app.self = app.before
  /\ app.self.analyze_button = "normal"

\* BaselineApp: the payload lacks dataset.rows, data is replaced and the
\* analyze button stays enabled
C28_BaselineAppDataReplaced ==
  /\ prog = "baseline_app"
  /\ LoadRaised
  /\ app.self.data # app.before.data
  /\ app.self.analyze_button = "normal"

\* LogPhaseSmoothedApp: the payload is not an object, data is replaced and
\* the analyze button stays enabled
C28_LogAppDataReplaced ==
  /\ prog = "logphase_app"
  /\ LoadRaised
  /\ app.self.data # app.before.data
  /\ app.self.analyze_button = "normal"

=============================================================================
